---- MODULE Spec2Model ----
(***************************************************************************)
(* PathMentor learning-path generator (src/backend): the request pipeline  *)
(* of main.generate_learning_path and the services it calls:               *)
(*   QueryGenerator.generate_queries, ScraperManager.fetch_all_resources,  *)
(*   RankingService.rank_resources / filter_by_quality_threshold /         *)
(*   diversify_results and PathBuilder.build_learning_path.                *)
(*                                                                         *)
(* Conventions.  An Optional string is the string or None; an Optional    *)
(* number n is <<n>> or Absent.  Text is a sequence of word pieces (the    *)
(* empty string is <<>>); "a in b" on text is contiguous containment of    *)
(* piece sequences.  A Python dict is a sequence of [key, value] records   *)
(* in insertion order.  Ratings are in tenths (<<45>> is 4.5).  Two runs   *)
(* of the program (Runs) are kept side by side so that properties          *)
(* comparing two executions can be stated.  The last part of the module    *)
(* is the handler complete_setup of src/backend_new, which writes the      *)
(* generated path and its tasks to the database.                           *)
(***************************************************************************)
EXTENDS Integers, Sequences, FiniteSets, TLC

VARIABLES
    profile,                \* the request's UserLearningProfile (same for both runs)
    resp,                   \* resp[r][q]: what client.search(q) does in run r
    pc,                     \* pc[r]: where run r's handler stands
    queries,                \* queries[r]: the list passed to fetch_all_resources
    tasks,                  \* tasks[r]: the _fetch_from_source coroutines given to gather
    results,                \* results[r]: the dict fetch_all_resources returns
    all_resources,          \* all_resources[r]: the caller's concatenation
    ranked_resources,       \* output of rank_resources
    filtered_resources,     \* output of filter_by_quality_threshold
    diversified_resources,  \* output of diversify_results
    learning_path,          \* output of build_learning_path
    response,               \* the HTTP status of the request (0: none yet)
    background_tasks,       \* the tasks handed to BackgroundTasks.add_task
    uniform_draws,          \* uniform_draws[r][i]: what random.uniform gave while resource i was scored
    min_rating_,             \* the threshold passed to filter_by_quality_threshold
    max_per_source_,         \* the cap passed to diversify_results
    path_store,             \* the rows of the paths table (backend_new)
    task_store,             \* the rows of the tasks table (backend_new)
    setup                   \* setup[r]: the call r of complete_setup (backend_new)

vars == <<profile, resp, pc, queries, tasks, results, all_resources,
          ranked_resources, filtered_resources, diversified_resources,
          learning_path, response, background_tasks, uniform_draws, min_rating_,
          max_per_source_, path_store, task_store, setup>>

None == "None"

Absent == <<>>

Some(n) == <<n>>

Runs == {1, 2}

\* No call of complete_setup (backend_new) has been made and its tables are empty.
NoSetup ==
    /\ path_store = <<>>
    /\ task_store = <<>>
    /\ setup = [r \in Runs |-> [pc |-> "idle"]]

\* Length of the longest query list handed directly to fetch_all_resources.
MaxQueries == 2

Range(s) == {s[i] : i \in DOMAIN s}

RECURSIVE Flatten(_)
Flatten(ss) ==
    IF ss = <<>> THEN <<>> ELSE ss[1] \o Flatten(Tail(ss))

RECURSIVE SeqsUpTo(_, _)
SeqsUpTo(S, n) ==
    IF n = 0 THEN {<<>>}
    ELSE LET shorter == SeqsUpTo(S, n - 1)
         IN  shorter \cup {Append(s, x) : s \in {t \in shorter : Len(t) = n - 1}, x \in S}

(***************************************************************************)
(* Python dict, insertion ordered.                                         *)
(***************************************************************************)
DictHas(d, k) == \E i \in DOMAIN d : d[i].key = k

DictGet(d, k) == d[CHOOSE i \in DOMAIN d : d[i].key = k].value

DictSet(d, k, v) ==
    IF DictHas(d, k)
    THEN [i \in DOMAIN d |-> IF d[i].key = k THEN [key |-> k, value |-> v] ELSE d[i]]
    ELSE Append(d, [key |-> k, value |-> v])

DictValues(d) == [i \in DOMAIN d |-> d[i].value]

(***************************************************************************)
(* models.py                                                               *)
(***************************************************************************)
ExperienceLevel == {"beginner", "intermediate", "advanced"}

LearningStyle == {"visual", "auditory", "hands_on", "reading"}

LearningGoal == {"skill_building", "career_change", "certification", "hobby", "academic"}

SearchQuery(text, source, difficulty, content_type) ==
    [query |-> text, source |-> source, difficulty |-> difficulty,
     content_type |-> content_type]

LearningResource(title, description, url, source, difficulty, rating, view_count, published_date, tags) ==
    [title |-> title, description |-> description, url |-> url, source |-> source,
     difficulty |-> difficulty, rating |-> rating, view_count |-> view_count,
     published_date |-> published_date, tags |-> tags]

(***************************************************************************)
(* Text: str.lower() and the "in" operator on piece sequences.             *)
(***************************************************************************)
LowerWord(w) ==
    CASE w = "React" -> "react"
      [] w = "Intro" -> "intro"
      [] w = "Advanced" -> "advanced"
      [] w = "Beginner" -> "beginner"
      [] w = "Intermediate" -> "intermediate"
      [] OTHER -> w

Lower(text) == [i \in DOMAIN text |-> LowerWord(text[i])]

Contains(text, sub) ==
    \E k \in 0..(Len(text) - Len(sub)) :
        \A i \in DOMAIN sub : text[k + i] = sub[i]

(***************************************************************************)
(* services/query_generator.py                                             *)
(***************************************************************************)
difficulty_modifiers ==
    [beginner |-> <<"beginner", "introduction", "basics", "tutorial",
                    "getting started", "fundamentals">>,
     intermediate |-> <<"intermediate", "practical", "projects", "hands-on",
                        "implementation">>,
     advanced |-> <<"advanced", "expert", "mastery", "deep dive", "professional",
                    "complex">>]

style_modifiers ==
    [visual |-> <<"visual", "diagram", "infographic", "chart", "demonstration">>,
     auditory |-> <<"explained", "lecture", "podcast", "audio", "discussion">>,
     hands_on |-> <<"project", "tutorial", "coding", "practice", "workshop", "lab">>,
     reading |-> <<"guide", "documentation", "article", "book", "text">>]

goal_modifiers ==
    [skill_building |-> <<"skills", "techniques", "methods", "practical">>,
     career_change |-> <<"career", "job", "employment", "professional", "industry">>,
     certification |-> <<"certification", "exam", "test", "credential", "official">>,
     hobby |-> <<"fun", "hobby", "personal", "creative", "interesting">>,
     academic |-> <<"academic", "theory", "research", "study", "course">>]

\* mods[:n]
Take(mods, n) == SubSeq(mods, 1, IF n < Len(mods) THEN n ELSE Len(mods))

\* the modifier words that have "hands" as a substring
HasHands(mod) == mod \in {"hands-on"}

_generate_youtube_queries(topic, difficulty_mods, style_mods, goal_mods) ==
    LET tutorial == [i \in DOMAIN Take(difficulty_mods, 2) |->
                        SearchQuery(topic \o <<difficulty_mods[i], "tutorial", "2024">>,
                                    "youtube", difficulty_mods[i], "tutorial")]
        course   == [i \in DOMAIN Take(style_mods, 2) |->
                        SearchQuery(topic \o <<style_mods[i], "course">>,
                                    "youtube", difficulty_mods[1], "course")]
        project  == IF \/ "project" \in Range(style_mods)
                       \/ \E m \in Range(style_mods) : HasHands(m)
                    THEN << SearchQuery(topic \o <<"project", difficulty_mods[1], "2024">>,
                                        "youtube", difficulty_mods[1], "project") >>
                    ELSE <<>>
    IN  tutorial \o course \o project

\* the complete-course loop running over three modifiers instead of two
_generate_udemy_queries_three(topic, difficulty_mods, goal_mods) ==
    LET complete == [i \in DOMAIN Take(difficulty_mods, 3) |->
                        SearchQuery(topic \o <<difficulty_mods[i], "complete course">>,
                                    "udemy", difficulty_mods[i], "course")]
        goal     == [i \in DOMAIN Take(goal_mods, 2) |->
                        SearchQuery(topic \o <<goal_mods[i]>>,
                                    "udemy", difficulty_mods[1], "course")]
    IN  complete \o goal

_generate_udemy_queries(topic, difficulty_mods, goal_mods) ==
    LET complete == [i \in DOMAIN Take(difficulty_mods, 2) |->
                        SearchQuery(topic \o <<difficulty_mods[i], "complete course">>,
                                    "udemy", difficulty_mods[i], "course")]
        goal     == [i \in DOMAIN Take(goal_mods, 2) |->
                        SearchQuery(topic \o <<goal_mods[i]>>,
                                    "udemy", difficulty_mods[1], "course")]
    IN  complete \o goal

_generate_reddit_queries(topic, difficulty_mods, goal_mods) ==
    << SearchQuery(topic \o <<"learning path", difficulty_mods[1]>>,
                   "reddit", difficulty_mods[1], "discussion"),
       SearchQuery(<<"best">> \o topic \o <<"resources", difficulty_mods[1]>>,
                   "reddit", difficulty_mods[1], "recommendations") >>
    \o (IF goal_mods # <<>>
        THEN << SearchQuery(topic \o <<goal_mods[1], "advice">>,
                            "reddit", difficulty_mods[1], "advice") >>
        ELSE <<>>)

generate_queries(p) ==
    LET difficulty_mods == difficulty_modifiers[p.experience_level]
        style_mods      == style_modifiers[p.learning_style]
        goal_mods       == goal_modifiers[p.goal]
    IN  _generate_youtube_queries(p.topic, difficulty_mods, style_mods, goal_mods)
        \o _generate_udemy_queries(p.topic, difficulty_mods, goal_mods)
        \o _generate_reddit_queries(p.topic, difficulty_mods, goal_mods)

(***************************************************************************)
(* The source clients (clients/*.py) are external: search(query) either    *)
(* raises, never completes, or returns a list of resources, each stamped   *)
(* with the client's own source id.                                        *)
(***************************************************************************)
Raise == [kind |-> "raise", items |-> <<>>]

Hang == [kind |-> "hang", items |-> <<>>]

Ok(items) == [kind |-> "ok", items |-> items]

source_clients == <<"youtube", "udemy", "reddit">>

ClientSearch(rp, source, query) ==
    [i \in DOMAIN rp[query].items |->
        [rp[query].items[i] EXCEPT !.source = source]]

(***************************************************************************)
(* ScraperManager._fetch_from_source                                       *)
(***************************************************************************)
RECURSIVE RemoveDuplicatesKeepLast(_)
RemoveDuplicatesKeepLast(rs) ==
    IF rs = <<>> THEN <<>>
    ELSE LET unique == RemoveDuplicatesKeepLast(SubSeq(rs, 1, Len(rs) - 1))
             resource == rs[Len(rs)]
         IN  IF \E i \in DOMAIN unique : unique[i].url = resource.url
             THEN [i \in DOMAIN unique |->
                      IF unique[i].url = resource.url THEN resource ELSE unique[i]]
             ELSE Append(unique, resource)

RECURSIVE RemoveDuplicates(_)
RemoveDuplicates(rs) ==
    IF rs = <<>> THEN <<>>
    ELSE LET unique == RemoveDuplicates(SubSeq(rs, 1, Len(rs) - 1))
             resource == rs[Len(rs)]
         IN  IF \E i \in DOMAIN unique : unique[i].url = resource.url
             THEN unique
             ELSE Append(unique, resource)

\* the accumulating list kept on the shared ScraperManager, so that a coroutine
\* starts from what the unfinished coroutines of the same source have gathered
NewTaskSharedList(source, source_queries) ==
    [source |-> source, queries |-> source_queries, i |-> 1,
     all_resources |->
        Flatten([p \in 1..Cardinality(Runs) |->
                    Flatten([t \in DOMAIN tasks[p] |->
                                IF tasks[p][t].source = source /\ ~tasks[p][t].done
                                THEN tasks[p][t].all_resources ELSE <<>>])]),
     done |-> FALSE, result |-> <<>>, order |-> 0]

\* A coroutine _fetch_from_source(source, queries) suspended in its i-th search.
NewTask(source, source_queries) ==
    [source |-> source, queries |-> source_queries, i |-> 1,
     all_resources |-> <<>>, done |-> FALSE, result |-> <<>>, order |-> 0]

NumDone(ts) == Cardinality({t \in DOMAIN ts : ts[t].done})

\* all_resources.extend(resources)
ExtendResources(all_resources_, resources) == all_resources_ \o resources

\* a failing search drops everything the source has gathered so far
OnSearchErrorDiscard(all_resources_) == <<>>

\* except Exception: print(...); continue
OnSearchError(all_resources_) == all_resources_

\* The coroutine resumes after its pending search with the accumulated list
\* acc, then either suspends in the next search or deduplicates and returns.
ResumeTask(ts, t, acc) ==
    LET task == ts[t]
    IN  IF task.i < Len(task.queries)
        THEN [task EXCEPT !.i = task.i + 1, !.all_resources = acc]
        ELSE [task EXCEPT !.i = task.i + 1, !.all_resources = acc, !.done = TRUE,
                          !.result = RemoveDuplicates(acc),
                          !.order = NumDone(ts) + 1]

PendingQuery(task) == task.queries[task.i]

(***************************************************************************)
(* ScraperManager.fetch_all_resources                                      *)
(***************************************************************************)
EmptyResults ==
    << [key |-> "youtube", value |-> <<>>],
       [key |-> "udemy", value |-> <<>>],
       [key |-> "reddit", value |-> <<>>] >>

RECURSIVE GroupBySource(_)
GroupBySource(qs) ==
    IF qs = <<>> THEN <<>>
    ELSE LET queries_by_source == GroupBySource(SubSeq(qs, 1, Len(qs) - 1))
             query == qs[Len(qs)]
         IN  IF DictHas(queries_by_source, query.source)
             THEN DictSet(queries_by_source, query.source,
                          Append(DictGet(queries_by_source, query.source), query))
             ELSE DictSet(queries_by_source, query.source, <<query>>)

\* one coroutine per query instead of one per source
CreateTasksPerQuery(queries_by_source) ==
    LET withClient == SelectSeq(queries_by_source,
                                LAMBDA e : e.key \in Range(source_clients))
    IN  Flatten([i \in DOMAIN withClient |->
                    [j \in DOMAIN withClient[i].value |->
                        NewTask(withClient[i].key, <<withClient[i].value[j]>>)]])

CreateTasks(queries_by_source) ==
    LET withClient == SelectSeq(queries_by_source,
                                LAMBDA e : e.key \in Range(source_clients))
    IN  [i \in DOMAIN withClient |-> NewTask(withClient[i].key, withClient[i].value)]

\* gather by completion order instead of argument order
SourceResultsByArrival(ts) ==
    [i \in DOMAIN ts |-> ts[CHOOSE t \in DOMAIN ts : ts[t].order = i].result]

\* asyncio.gather: the results in the order the coroutines were passed
SourceResults(ts) ==
    [i \in DOMAIN ts |-> ts[i].result]

RECURSIVE CombineResults(_, _, _)
CombineResults(queries_by_source, source_results, n) ==
    IF n = 0 THEN EmptyResults
    ELSE LET soFar == CombineResults(queries_by_source, source_results, n - 1)
         IN  IF n <= Len(source_results)
             THEN DictSet(soFar, queries_by_source[n].key, source_results[n])
             ELSE soFar

\* The runs are taken one after the other: a run starts once the runs before
\* it are over.
EarlierRunsOver(r) ==
    \A p \in Runs : p < r => pc[p] \in {"combined", "failed", "success"}

EarlierRunsAnswered(r) ==
    \A p \in Runs : p < r => pc[p] \in {"success", "failed"}

\* fetch_all_resources up to its await of asyncio.gather
CallFetch(r) ==
    /\ pc[r] = "queries"
    /\ tasks' = [tasks EXCEPT ![r] = CreateTasks(GroupBySource(queries[r]))]
    /\ pc' = [pc EXCEPT ![r] = "gather"]
    /\ UNCHANGED <<profile, resp, queries, results, all_resources, ranked_resources,
                   filtered_resources, diversified_resources, learning_path, response,
                   background_tasks>>
    /\ UNCHANGED <<uniform_draws, min_rating_, max_per_source_>>
    /\ UNCHANGED <<path_store, task_store, setup>>

StartFetch(r) == EarlierRunsOver(r) /\ CallFetch(r)

SearchReturns(r, t) ==
    /\ pc[r] = "gather"
    /\ ~tasks[r][t].done
    /\ resp[r][PendingQuery(tasks[r][t])].kind = "ok"
    /\ tasks' = [tasks EXCEPT ![r][t] =
                    ResumeTask(tasks[r], t,
                        ExtendResources(tasks[r][t].all_resources,
                            ClientSearch(resp[r], tasks[r][t].source,
                                         PendingQuery(tasks[r][t]))))]
    /\ UNCHANGED <<profile, resp, pc, queries, results, all_resources,
                   ranked_resources, filtered_resources, diversified_resources,
                   learning_path, response, background_tasks>>
    /\ UNCHANGED <<uniform_draws, min_rating_, max_per_source_>>
    /\ UNCHANGED <<path_store, task_store, setup>>

SearchRaises(r, t) ==
    /\ pc[r] = "gather"
    /\ ~tasks[r][t].done
    /\ resp[r][PendingQuery(tasks[r][t])].kind = "raise"
    /\ tasks' = [tasks EXCEPT ![r][t] =
                    ResumeTask(tasks[r], t, OnSearchError(tasks[r][t].all_resources))]
    /\ UNCHANGED <<profile, resp, pc, queries, results, all_resources,
                   ranked_resources, filtered_resources, diversified_resources,
                   learning_path, response, background_tasks>>
    /\ UNCHANGED <<uniform_draws, min_rating_, max_per_source_>>
    /\ UNCHANGED <<path_store, task_store, setup>>

GatherReturns(r) ==
    /\ pc[r] = "gather"
    /\ \A t \in DOMAIN tasks[r] : tasks[r][t].done
    /\ results' = [results EXCEPT ![r] =
                      LET queries_by_source == GroupBySource(queries[r])
                      IN  CombineResults(queries_by_source, SourceResults(tasks[r]),
                                         Len(queries_by_source))]
    /\ pc' = [pc EXCEPT ![r] = "fetched"]
    /\ UNCHANGED <<profile, resp, queries, tasks, all_resources, ranked_resources,
                   filtered_resources, diversified_resources, learning_path, response,
                   background_tasks>>
    /\ UNCHANGED <<uniform_draws, min_rating_, max_per_source_>>
    /\ UNCHANGED <<path_store, task_store, setup>>

(***************************************************************************)
(* services/ranking_service.py.  Factor scores are integers in units of    *)
(* 1/3000 (3000 is 1.0), weights are in tenths and the difficulty          *)
(* multiplier in hundredths, so a composite score is an integer in units   *)
(* of 1/3000000 and is compared exactly.                                   *)
(***************************************************************************)
rating_weight == 3

view_count_weight == 2

recency_weight == 2

relevance_weight == 3

\* preference values in tenths
difficulty_preferences ==
    [beginner |-> [beginner |-> 10, intermediate |-> 3, advanced |-> 1],
     intermediate |-> [beginner |-> 5, intermediate |-> 10, advanced |-> 7],
     advanced |-> [beginner |-> 2, intermediate |-> 6, advanced |-> 10]]

Min(a, b) == IF a < b THEN a ELSE b

Max(a, b) == IF a > b THEN a ELSE b

\* math.log10 on the view counts used here, all of the form 10^k - 1
RECURSIVE Log10(_)
Log10(n) == IF n < 10 THEN 0 ELSE 1 + Log10(n \div 10)

\* random.uniform(0.3, 1.0): the two ends of the interval
RecencyDraws == {900, 3000}

\* draw is the value random.uniform returns if it is called
_calculate_recency_score(published_date, draw) ==
    IF published_date = None THEN 1500 ELSE draw

_calculate_relevance_score(resource, user_profile) ==
    LET topic_lower == Lower(user_profile.topic)
        inTitle == IF Contains(Lower(resource.title), topic_lower) THEN 5 ELSE 0
        inDesc  == IF /\ resource.description # <<>>
                      /\ Contains(Lower(resource.description), topic_lower)
                   THEN 3 ELSE 0
        inTags  == IF \E i \in DOMAIN resource.tags :
                         Contains(Lower(resource.tags[i]), topic_lower)
                   THEN 1 ELSE 0
        exp_keywords ==
            [beginner |-> {<<"beginner">>, <<"intro">>, <<"basic">>, <<"fundamentals">>,
                           <<"getting", "started">>},
             intermediate |-> {<<"intermediate">>, <<"practical">>, <<"hands-on">>,
                               <<"project">>},
             advanced |-> {<<"advanced">>, <<"expert">>, <<"deep">>, <<"complex">>,
                           <<"professional">>}]
        content_text == Lower(resource.title \o resource.description)
        inText  == IF \E keyword \in exp_keywords[user_profile.experience_level] :
                         Contains(content_text, keyword)
                   THEN 1 ELSE 0
    IN  300 * Min(inTitle + inDesc + inTags + inText, 10)

\* the difficulty looked up as it is written, without .lower()
_calculate_difficulty_bonus_unlowered(resource, user_profile) ==
    IF resource.difficulty \in {None, ""} THEN 0
    ELSE LET difficulty_prefs == difficulty_preferences[user_profile.experience_level]
             key == resource.difficulty
         IN  IF key \in DOMAIN difficulty_prefs THEN difficulty_prefs[key] * 2 ELSE 0

\* the bonus in hundredths: preference (tenths) * 0.2
_calculate_difficulty_bonus(resource, user_profile) ==
    IF resource.difficulty \in {None, ""} THEN 0
    ELSE LET difficulty_prefs == difficulty_preferences[user_profile.experience_level]
             key == LowerWord(resource.difficulty)
         IN  IF key \in DOMAIN difficulty_prefs THEN difficulty_prefs[key] * 2 ELSE 0

_calculate_resource_score(resource, user_profile, draw) ==
    LET rating_score == IF resource.rating # Absent /\ resource.rating[1] # 0
                        THEN Min(resource.rating[1] * 60, 3000) * rating_weight
                        ELSE 0
        view_score   == IF resource.view_count # Absent /\ resource.view_count[1] # 0
                        THEN Min(Log10(resource.view_count[1] + 1) * 500, 3000)
                                 * view_count_weight
                        ELSE 0
        recency      == _calculate_recency_score(resource.published_date, draw)
                            * recency_weight
        relevance    == _calculate_relevance_score(resource, user_profile)
                            * relevance_weight
    IN  (rating_score + view_score + recency + relevance)
            * (100 + _calculate_difficulty_bonus(resource, user_profile))

\* a descending sort that puts the later of two equal scores first
RECURSIVE SortDescendingUnstable(_)
SortDescendingUnstable(scored) ==
    IF scored = <<>> THEN <<>>
    ELSE LET sorted == SortDescendingUnstable(SubSeq(scored, 1, Len(scored) - 1))
             x == scored[Len(scored)]
             k == Cardinality({i \in DOMAIN sorted : sorted[i].score > x.score})
         IN  SubSeq(sorted, 1, k) \o <<x>> \o SubSeq(sorted, k + 1, Len(sorted))

\* list.sort(key=score, reverse=True): stable, descending
RECURSIVE SortDescending(_)
SortDescending(scored) ==
    IF scored = <<>> THEN <<>>
    ELSE LET sorted == SortDescending(SubSeq(scored, 1, Len(scored) - 1))
             x == scored[Len(scored)]
             k == Cardinality({i \in DOMAIN sorted : sorted[i].score >= x.score})
         IN  SubSeq(sorted, 1, k) \o <<x>> \o SubSeq(sorted, k + 1, Len(sorted))

\* the ranking returning resources whose difficulty it has put in lower case
rank_resources_lowering(resources, user_profile, draws) ==
    LET scored_resources ==
            [i \in DOMAIN resources |->
                [resource |-> [resources[i] EXCEPT
                                  !.difficulty = LowerWord(resources[i].difficulty)],
                 score |-> _calculate_resource_score(resources[i], user_profile,
                                                     draws[i])]]
        sorted == SortDescending(scored_resources)
    IN  [i \in DOMAIN sorted |-> sorted[i].resource]

\* draws[i] is what random.uniform returns while resource i is scored
rank_resources(resources, user_profile, draws) ==
    LET scored_resources ==
            [i \in DOMAIN resources |->
                [resource |-> resources[i],
                 score |-> _calculate_resource_score(resources[i], user_profile,
                                                     draws[i])]]
        sorted == SortDescending(scored_resources)
    IN  [i \in DOMAIN sorted |-> sorted[i].resource]

\* the rating tested for truth: "not resource.rating or resource.rating >= min_rating"
filter_by_quality_threshold_falsy(resources, min_rating) ==
    SelectSeq(resources,
              LAMBDA resource : \/ resource.rating = Absent
                                \/ resource.rating[1] = 0
                                \/ resource.rating[1] >= min_rating)

filter_by_quality_threshold(resources, min_rating) ==
    SelectSeq(resources,
              LAMBDA resource : resource.rating = Absent \/ resource.rating[1] >= min_rating)

\* the cap tested with <= instead of <
RECURSIVE diversify_results_inclusive(_, _)
diversify_results_inclusive(resources, max_per_source) ==
    IF resources = <<>> THEN <<>>
    ELSE LET diversified == diversify_results_inclusive(
                                SubSeq(resources, 1, Len(resources) - 1), max_per_source)
             resource == resources[Len(resources)]
             count == Len(SelectSeq(diversified, LAMBDA d : d.source = resource.source))
         IN  IF count <= max_per_source THEN Append(diversified, resource)
             ELSE diversified

RECURSIVE diversify_results(_, _)
diversify_results(resources, max_per_source) ==
    IF resources = <<>> THEN <<>>
    ELSE LET diversified == diversify_results(SubSeq(resources, 1, Len(resources) - 1),
                                              max_per_source)
             resource == resources[Len(resources)]
             count == Len(SelectSeq(diversified, LAMBDA d : d.source = resource.source))
         IN  IF count < max_per_source THEN Append(diversified, resource)
             ELSE diversified

(***************************************************************************)
(* services/path_builder.py                                                *)
(***************************************************************************)
Template(title, description, order) ==
    [title |-> title, description |-> description, order |-> order]

step_templates ==
    [beginner |->
        << Template("Introduction and Fundamentals", "Get familiar with basic concepts", 1),
           Template("Core Concepts", "Learn the essential building blocks", 2),
           Template("Practical Examples", "See concepts in action", 3),
           Template("Hands-On Practice", "Apply what you've learned", 4),
           Template("First Project", "Build something real", 5) >>,
     intermediate |->
        << Template("Review and Foundation", "Solidify your existing knowledge", 1),
           Template("Advanced Concepts", "Dive deeper into complex topics", 2),
           Template("Best Practices", "Learn industry standards", 3),
           Template("Real-World Projects", "Build complex applications", 4),
           Template("Optimization and Performance", "Make it better and faster", 5) >>,
     advanced |->
        << Template("Advanced Techniques", "Master complex methodologies", 1),
           Template("Architecture and Design", "Learn system design principles", 2),
           Template("Performance Optimization", "Optimize for scale and efficiency", 3),
           Template("Expert-Level Projects", "Build production-ready systems", 4),
           Template("Teaching and Leadership", "Share knowledge and lead teams", 5) >>]

duration_estimates ==
    [beginner |-> [per_step |-> "1-2 weeks", total |-> "6-10 weeks"],
     intermediate |-> [per_step |-> "1-3 weeks", total |-> "8-12 weeks"],
     advanced |-> [per_step |-> "2-4 weeks", total |-> "10-16 weeks"]]

\* template["title"].lower(), cut into the pieces the keyword tests look for
TitleLower(title) ==
    CASE title = "Introduction and Fundamentals" -> <<"introduction", "and", "fundamentals">>
      [] title = "Core Concepts" -> <<"core", "concepts">>
      [] title = "Practical Examples" -> <<"practical", "examples">>
      [] title = "Hands-On Practice" -> <<"hands-on", "practice">>
      [] title = "First Project" -> <<"first", "project">>
      [] title = "Review and Foundation" -> <<"review", "and", "foundation">>
      [] title = "Advanced Concepts" -> <<"advanced", "concepts">>
      [] title = "Best Practices" -> <<"best", "practice", "s">>
      [] title = "Real-World Projects" -> <<"real-world", "project", "s">>
      [] title = "Optimization and Performance" -> <<"optimization", "and", "performance">>
      [] title = "Advanced Techniques" -> <<"advanced", "techniques">>
      [] title = "Architecture and Design" -> <<"architecture", "and", "design">>
      [] title = "Performance Optimization" -> <<"performance", "optimization">>
      [] title = "Expert-Level Projects" -> <<"expert-level", "project", "s">>
      [] title = "Teaching and Leadership" -> <<"teaching", "and", "leadership">>

_generate_learning_objectives(template, user_profile, resources) ==
    LET topic == user_profile.topic
        step_title == TitleLower(template.title)
        Has(word) == Contains(step_title, word)
    IN  IF Has(<<"introduction">>) \/ Has(<<"fundamentals">>)
        THEN << <<"Understand the basic concepts of">> \o topic,
                <<"Learn the fundamental terminology and principles">>,
                <<"Get familiar with the">> \o topic \o <<"ecosystem">> >>
        ELSE IF Has(<<"core", "concepts">>)
        THEN << <<"Master the essential">> \o topic \o <<"concepts">>,
                <<"Learn how different components work together">>,
                <<"Understand best practices and common patterns">> >>
        ELSE IF Has(<<"practical">>) \/ Has(<<"examples">>)
        THEN << <<"See">> \o topic \o <<"concepts applied in real scenarios">>,
                <<"Understand common use cases and applications">>,
                <<"Learn to identify when to use different approaches">> >>
        ELSE IF Has(<<"hands-on">>) \/ Has(<<"practice">>)
        THEN << <<"Practice implementing">> \o topic \o <<"solutions">>,
                <<"Build confidence through hands-on exercises">>,
                <<"Develop problem-solving skills">> >>
        ELSE IF Has(<<"project">>)
        THEN << <<"Apply">> \o topic \o <<"knowledge to build a complete project">>,
                <<"Learn project organization and structure">>,
                <<"Practice debugging and troubleshooting">> >>
        ELSE << <<"Advance your knowledge of">> \o topic,
                <<"Learn new techniques and approaches">>,
                <<"Build practical skills and experience">> >>

\* the step naming itself: "Complete Step <its own number>"
_generate_prerequisites_own_number(template, step_index) ==
    IF step_index = 0 THEN <<>>
    ELSE LET step_title == TitleLower(template.title)
         IN  << <<"Complete Step", ToString(step_index + 1)>> >>
             \o (IF Contains(step_title, <<"advanced">>)
                 THEN << <<"Strong understanding of core concepts">> >>
                 ELSE IF Contains(step_title, <<"project">>)
                 THEN << <<"Practical experience with the fundamentals">> >>
                 ELSE <<>>)

_generate_prerequisites(template, step_index) ==
    IF step_index = 0 THEN <<>>
    ELSE LET step_title == TitleLower(template.title)
         IN  << <<"Complete Step", ToString(step_index)>> >>
             \o (IF Contains(step_title, <<"advanced">>)
                 THEN << <<"Strong understanding of core concepts">> >>
                 ELSE IF Contains(step_title, <<"project">>)
                 THEN << <<"Practical experience with the fundamentals">> >>
                 ELSE <<>>)

\* weeks = base_days // 7, without the max(1, ...)
_estimate_step_duration_no_minimum(resources, user_profile) ==
    IF resources = <<>> THEN 1
    ELSE LET days == Len(resources) * 2
             base_days ==
                IF user_profile.experience_level = "beginner" THEN (days * 15) \div 10
                ELSE IF user_profile.experience_level = "advanced" THEN (days * 7) \div 10
                ELSE days
         IN  base_days \div 7

\* the number of weeks in the returned text "1 week" / "<n> weeks"
_estimate_step_duration(resources, user_profile) ==
    IF resources = <<>> THEN 1
    ELSE LET days == Len(resources) * 2
             base_days ==
                IF user_profile.experience_level = "beginner" THEN (days * 15) \div 10
                ELSE IF user_profile.experience_level = "advanced" THEN (days * 7) \div 10
                ELSE days
         IN  Max(1, base_days \div 7)   \* int() of the float product: exact below 45 resources

\* the LearningPathStep built from a template and the resources given to it
MakeStep(template, step_index, step_resources, user_profile) ==
    [step_number |-> template.order,
     title |-> template.title,
     description |-> template.description,
     estimated_duration |-> _estimate_step_duration(step_resources, user_profile),
     resources |-> step_resources,
     prerequisites |-> _generate_prerequisites(template, step_index),
     learning_objectives |->
        _generate_learning_objectives(template, user_profile, step_resources)]

\* the steps that would hold no resource are left out
_create_steps_nonempty(templates, resources, user_profile) ==
    LET per == Max(1, Len(resources) \div Len(templates))
        Slice(i) == IF i = Len(templates) - 1
                    THEN SubSeq(resources, i * per + 1, Len(resources))
                    ELSE SubSeq(resources, i * per + 1, Min((i + 1) * per, Len(resources)))
        all == [n \in DOMAIN templates |->
                   MakeStep(templates[n], n - 1, Slice(n - 1), user_profile)]
    IN  SelectSeq(all, LAMBDA step : step.resources # <<>>)

\* a step that would hold no resource is given the last resource
_create_steps_padded(templates, resources, user_profile) ==
    LET per == Max(1, Len(resources) \div Len(templates))
        Slice(i) == IF i = Len(templates) - 1
                    THEN SubSeq(resources, i * per + 1, Len(resources))
                    ELSE SubSeq(resources, i * per + 1, Min((i + 1) * per, Len(resources)))
        Padded(i) == IF Slice(i) = <<>> /\ resources # <<>>
                     THEN <<resources[Len(resources)]>> ELSE Slice(i)
    IN  [n \in DOMAIN templates |->
            MakeStep(templates[n], n - 1, Padded(n - 1), user_profile)]

\* resources_per_step without the max(1, ...)
_create_steps_floor(templates, resources, user_profile) ==
    LET per == Len(resources) \div Len(templates)
        Slice(i) == IF i = Len(templates) - 1
                    THEN SubSeq(resources, i * per + 1, Len(resources))
                    ELSE SubSeq(resources, i * per + 1, Min((i + 1) * per, Len(resources)))
    IN  [n \in DOMAIN templates |->
            MakeStep(templates[n], n - 1, Slice(n - 1), user_profile)]

\* the last step sliced like the others
_create_steps_even(templates, resources, user_profile) ==
    LET per == Max(1, Len(resources) \div Len(templates))
        Slice(i) == SubSeq(resources, Min(i * per, Len(resources)) + 1,
                           Min((i + 1) * per, Len(resources)))
    IN  [n \in DOMAIN templates |->
            MakeStep(templates[n], n - 1, Slice(n - 1), user_profile)]

_create_steps(templates, resources, user_profile) ==
    LET resources_per_step == Max(1, Len(resources) \div Len(templates))
        StepResources(i) ==
            LET start_idx == i * resources_per_step
                end_idx == start_idx + resources_per_step
            IN  IF i = Len(templates) - 1
                THEN SubSeq(resources, start_idx + 1, Len(resources))
                ELSE SubSeq(resources, start_idx + 1, Min(end_idx, Len(resources)))
    IN  [n \in DOMAIN templates |->
            [step_number |-> templates[n].order,
             title |-> templates[n].title,
             description |-> templates[n].description,
             estimated_duration |->
                _estimate_step_duration(StepResources(n - 1), user_profile),
             resources |-> StepResources(n - 1),
             prerequisites |-> _generate_prerequisites(templates[n], n - 1),
             learning_objectives |->
                _generate_learning_objectives(templates[n], user_profile,
                                              StepResources(n - 1))]]

\* topic.title(), level.title() and the goal with "_" replaced are kept as a tuple
_generate_path_title(user_profile) ==
    <<user_profile.topic, user_profile.experience_level, "Learning Path for",
      user_profile.goal>>

_generate_path_description(user_profile, resource_count) ==
    [level |-> user_profile.experience_level, topic |-> user_profile.topic,
     goal |-> user_profile.goal, resource_count |-> resource_count,
     hours_per_week |->
        IF user_profile.time_commitment # Absent /\ user_profile.time_commitment[1] # 0
        THEN user_profile.time_commitment ELSE Absent]

\* list(set(tags)): the tags without duplicates; their order is not modelled
_generate_tags(user_profile) ==
    LET topic_lower == Lower(user_profile.topic)
    IN  {topic_lower, <<user_profile.experience_level>>, <<user_profile.learning_style>>,
         <<user_profile.goal>>}
        \cup (IF Contains(topic_lower, <<"programming">>) \/ Contains(topic_lower, <<"coding">>)
              THEN {<<"programming">>} ELSE {})
        \cup (IF Contains(topic_lower, <<"web">>) THEN {<<"web-development">>} ELSE {})
        \cup (IF Contains(topic_lower, <<"data">>) THEN {<<"data-science">>} ELSE {})

\* path_id is the uuid4 drawn and created_at the clock read by this call
build_learning_path(user_profile, ranked, path_id, created_at) ==
    [path_id |-> path_id,
     user_profile |-> user_profile,
     title |-> _generate_path_title(user_profile),
     description |-> _generate_path_description(user_profile, Len(ranked)),
     total_duration |-> duration_estimates[user_profile.experience_level].total,
     difficulty_level |-> user_profile.experience_level,
     steps |-> _create_steps(step_templates[user_profile.experience_level], ranked,
                             user_profile),
     created_at |-> created_at,
     tags |-> _generate_tags(user_profile)]

(***************************************************************************)
(* main.generate_learning_path, after the fetch                            *)
(***************************************************************************)
ConcatResources(raw_resources) == Flatten(DictValues(raw_resources))

\* the merge going on to the ranking without looking whether anything was found
CombineResourcesUnchecked(r) ==
    /\ pc[r] = "fetched"
    /\ all_resources' = [all_resources EXCEPT ![r] = ConcatResources(results[r])]
    /\ pc' = [pc EXCEPT ![r] = "combined"]
    /\ UNCHANGED <<profile, resp, queries, tasks, results, ranked_resources,
                   filtered_resources, diversified_resources, learning_path,
                   background_tasks, response>>
    /\ UNCHANGED <<uniform_draws, min_rating_, max_per_source_>>
    /\ UNCHANGED <<path_store, task_store, setup>>

CombineResources(r) ==
    /\ pc[r] = "fetched"
    /\ all_resources' = [all_resources EXCEPT ![r] = ConcatResources(results[r])]
    /\ IF ConcatResources(results[r]) = <<>>
       THEN /\ pc' = [pc EXCEPT ![r] = "failed"]
            /\ response' = [response EXCEPT ![r] = 404]
       ELSE /\ pc' = [pc EXCEPT ![r] = "combined"]
            /\ UNCHANGED response
    /\ UNCHANGED <<profile, resp, queries, tasks, results, ranked_resources,
                   filtered_resources, diversified_resources, learning_path,
                   background_tasks>>
    /\ UNCHANGED <<uniform_draws, min_rating_, max_per_source_>>
    /\ UNCHANGED <<path_store, task_store, setup>>

\* What random.uniform returns during one call of rank_resources: a value for
\* each resource that has a published_date (0 where it is not called).
UniformDraws(resources) ==
    { d \in [DOMAIN resources -> RecencyDraws \cup {0}] :
        \A i \in DOMAIN resources :
            d[i] = 0 <=> resources[i].published_date = None }

Rank(r) ==
    /\ pc[r] = "combined"
    /\ \E d \in UniformDraws(all_resources[r]) :
          /\ uniform_draws' = [uniform_draws EXCEPT ![r] = d]
          /\ ranked_resources' = [ranked_resources EXCEPT ![r] =
                                      rank_resources(all_resources[r], profile, d)]
    /\ pc' = [pc EXCEPT ![r] = "ranked"]
    /\ UNCHANGED <<profile, resp, queries, tasks, results, all_resources,
                   filtered_resources, diversified_resources, learning_path, response,
                   background_tasks>>
    /\ UNCHANGED <<min_rating_, max_per_source_>>
    /\ UNCHANGED <<path_store, task_store, setup>>

Filter(r) ==
    /\ pc[r] = "ranked"
    /\ filtered_resources' = [filtered_resources EXCEPT ![r] =
                                  filter_by_quality_threshold(ranked_resources[r],
                                                              min_rating_)]
    /\ pc' = [pc EXCEPT ![r] = "filtered"]
    /\ UNCHANGED <<profile, resp, queries, tasks, results, all_resources,
                   ranked_resources, diversified_resources, learning_path, response,
                   background_tasks>>
    /\ UNCHANGED <<uniform_draws, min_rating_, max_per_source_>>
    /\ UNCHANGED <<path_store, task_store, setup>>

Diversify(r) ==
    /\ pc[r] = "filtered"
    /\ diversified_resources' = [diversified_resources EXCEPT ![r] =
                                     diversify_results(filtered_resources[r],
                                                       max_per_source_)]
    /\ pc' = [pc EXCEPT ![r] = "diversified"]
    /\ UNCHANGED <<profile, resp, queries, tasks, results, all_resources,
                   ranked_resources, filtered_resources, learning_path, response,
                   background_tasks>>
    /\ UNCHANGED <<uniform_draws, min_rating_, max_per_source_>>
    /\ UNCHANGED <<path_store, task_store, setup>>

\* what uuid.uuid4() and datetime.utcnow() give a call of build_learning_path
Stamps ==
    { [path_id |-> "uuid-a", created_at |-> "t1"],
      [path_id |-> "uuid-b", created_at |-> "t2"] }

\* the path built from the ranked list, before the filter and the cap
BuildFromRanked(r) ==
    /\ pc[r] = "diversified"
    /\ \E stamp \in Stamps :
          learning_path' = [learning_path EXCEPT ![r] =
                               << build_learning_path(profile, ranked_resources[r],
                                                      stamp.path_id, stamp.created_at) >>]
    /\ pc' = [pc EXCEPT ![r] = "built"]
    /\ UNCHANGED <<profile, resp, queries, tasks, results, all_resources,
                   ranked_resources, filtered_resources, diversified_resources, response,
                   background_tasks>>
    /\ UNCHANGED <<uniform_draws, min_rating_, max_per_source_>>
    /\ UNCHANGED <<path_store, task_store, setup>>

Build(r) ==
    /\ pc[r] = "diversified"
    /\ \E stamp \in Stamps :
          learning_path' = [learning_path EXCEPT ![r] =
                               << build_learning_path(profile, diversified_resources[r],
                                                      stamp.path_id, stamp.created_at) >>]
    /\ pc' = [pc EXCEPT ![r] = "built"]
    /\ UNCHANGED <<profile, resp, queries, tasks, results, all_resources,
                   ranked_resources, filtered_resources, diversified_resources, response,
                   background_tasks>>
    /\ UNCHANGED <<uniform_draws, min_rating_, max_per_source_>>
    /\ UNCHANGED <<path_store, task_store, setup>>

Respond(r) ==
    /\ pc[r] = "built"
    /\ background_tasks' = [background_tasks EXCEPT ![r] =
                                <<"save_learning_path_async", "log_path_generation">>]
    /\ response' = [response EXCEPT ![r] = 200]
    /\ pc' = [pc EXCEPT ![r] = "success"]
    /\ UNCHANGED <<profile, resp, queries, tasks, results, all_resources,
                   ranked_resources, filtered_resources, diversified_resources,
                   learning_path>>
    /\ UNCHANGED <<uniform_draws, min_rating_, max_per_source_>>
    /\ UNCHANGED <<path_store, task_store, setup>>

\* A run of fetch_all_resources and its caller's merge is over at "combined"
\* or "failed", a whole request at "success" or "failed".
Finished(r) == pc[r] \in {"combined", "failed"}

Answered(r) == pc[r] \in {"success", "failed"}

(***************************************************************************)
(* fetch_all_resources on an arbitrary bounded query list                  *)
(***************************************************************************)
AnySource == Range(source_clients) \cup {"blog"}

Plain(url, rating) ==
    LearningResource(<<"t">>, <<>>, url, None, None, rating, Absent, None, <<>>)

FetchResponses ==
    { Raise, Hang, Ok(<<>>),
      Ok(<<Plain("x1", Absent)>>),
      Ok(<<Plain("x1", Some(45)), Plain("x2", Absent)>>),
      Ok(<<Plain("x1", Absent), Plain("x1", Some(45))>>) }

QueryListsUpTo(n) ==
    LET sourceLists == SeqsUpTo(AnySource, n)
    IN  { [i \in DOMAIN sl |-> SearchQuery(<<"q", ToString(i)>>, sl[i], "all", "all")]
            : sl \in sourceLists }

\* The same responses, except that the searches of source s that raise succeed.
Healed(rp, s) ==
    [q \in DOMAIN rp |->
        IF q.source = s /\ rp[q].kind = "raise"
        THEN Ok(<<Plain("x2", Some(45))>>) ELSE rp[q]]

NoProfile ==
    [topic |-> <<>>, experience_level |-> "beginner", learning_style |-> "visual",
     goal |-> "hobby", time_commitment |-> Absent]

InitFetch ==
    /\ profile = NoProfile
    /\ \E qs \in QueryListsUpTo(MaxQueries) :
          /\ queries = [r \in Runs |-> qs]
          /\ \E rp \in [Range(qs) -> FetchResponses] :
                \E other \in {rp} \cup {Healed(rp, s) : s \in AnySource} :
                    resp = [r \in Runs |-> IF r = 1 THEN rp ELSE other]
    /\ pc = [r \in Runs |-> "queries"]
    /\ tasks = [r \in Runs |-> <<>>]
    /\ results = [r \in Runs |-> <<>>]
    /\ all_resources = [r \in Runs |-> <<>>]
    /\ ranked_resources = [r \in Runs |-> <<>>]
    /\ filtered_resources = [r \in Runs |-> <<>>]
    /\ diversified_resources = [r \in Runs |-> <<>>]
    /\ learning_path = [r \in Runs |-> <<>>]
    /\ response = [r \in Runs |-> 0]
    /\ background_tasks = [r \in Runs |-> <<>>]
    /\ uniform_draws = [r \in Runs |-> <<>>]
    /\ min_rating_ = 20        \* min_rating=2.0 in generate_learning_path
    /\ max_per_source_ = 5     \* max_per_source=5 in generate_learning_path
    /\ NoSetup

NextFetch ==
    \/ \E r \in Runs : StartFetch(r)
    \/ \E r \in Runs : \E t \in DOMAIN tasks[r] : SearchReturns(r, t)
    \/ \E r \in Runs : \E t \in DOMAIN tasks[r] : SearchRaises(r, t)
    \/ \E r \in Runs : GatherReturns(r)
    \/ \E r \in Runs : CombineResources(r)

SpecFetch == InitFetch /\ [][NextFetch]_vars

(***************************************************************************)
(* main.generate_learning_path, up to the fetch                            *)
(***************************************************************************)
\* generate_learning_path from its entry to the call of fetch_all_resources
CallGenerateQueries(r) ==
    /\ pc[r] = "request"
    /\ queries' = [queries EXCEPT ![r] = generate_queries(profile)]
    /\ IF generate_queries(profile) = <<>>
       THEN /\ pc' = [pc EXCEPT ![r] = "failed"]
            /\ response' = [response EXCEPT ![r] = 400]
       ELSE /\ pc' = [pc EXCEPT ![r] = "queries"]
            /\ UNCHANGED response
    /\ UNCHANGED <<profile, resp, tasks, results, all_resources, ranked_resources,
                   filtered_resources, diversified_resources, learning_path,
                   background_tasks>>
    /\ UNCHANGED <<uniform_draws, min_rating_, max_per_source_>>
    /\ UNCHANGED <<path_store, task_store, setup>>

GenerateQueries(r) == EarlierRunsAnswered(r) /\ CallGenerateQueries(r)

(***************************************************************************)
(* generate_queries on every profile                                       *)
(***************************************************************************)
Topics == {<<>>, <<"React">>}

AllProfiles ==
    [topic : Topics, experience_level : ExperienceLevel,
     learning_style : LearningStyle, goal : LearningGoal,
     time_commitment : {Absent, Some(5)}]

InitQueries ==
    /\ profile \in AllProfiles
    /\ resp = [r \in Runs |-> <<>>]
    /\ pc = [r \in Runs |-> "request"]
    /\ queries = [r \in Runs |-> <<>>]
    /\ tasks = [r \in Runs |-> <<>>]
    /\ results = [r \in Runs |-> <<>>]
    /\ all_resources = [r \in Runs |-> <<>>]
    /\ ranked_resources = [r \in Runs |-> <<>>]
    /\ filtered_resources = [r \in Runs |-> <<>>]
    /\ diversified_resources = [r \in Runs |-> <<>>]
    /\ learning_path = [r \in Runs |-> <<>>]
    /\ response = [r \in Runs |-> 0]
    /\ background_tasks = [r \in Runs |-> <<>>]
    /\ uniform_draws = [r \in Runs |-> <<>>]
    /\ min_rating_ = 20        \* min_rating=2.0 in generate_learning_path
    /\ max_per_source_ = 5     \* max_per_source=5 in generate_learning_path
    /\ NoSetup

NextQueries == \E r \in Runs : GenerateQueries(r)

SpecQueries == InitQueries /\ [][NextQueries]_vars

(***************************************************************************)
(* The whole request: generate_learning_path on a profile                  *)
(***************************************************************************)
PipelineProfiles ==
    [topic : Topics, experience_level : {"beginner"},
     learning_style : {"visual"}, goal : {"skill_building"},
     time_commitment : {Absent}]

\* What a source's client answers to every query of a request.
Poor ==
    LearningResource(<<"React", "tips">>, <<>>, "u-poor", None, None, Some(15),
                     Absent, None, <<>>)

DatedA ==
    LearningResource(<<"React", "course">>, <<>>, "u-a", None, "Beginner", Some(40),
                     Some(999), "2024-01-01", <<>>)

DatedB ==
    LearningResource(<<"React", "guide">>, <<>>, "u-b", None, "Beginner", Some(45),
                     Some(999), "2023-06-01", <<>>)

Good ==
    LearningResource(<<"Intro", "to", "hooks">>, <<"Advanced", "React">>, "u-g", None,
                     "Advanced", Absent, Some(999999), None, << <<"React">> >>)

Behaviours ==
    [youtube |-> {Raise, Ok(<<Poor>>), Ok(<<DatedA, DatedB>>)},
     udemy   |-> {Raise, Ok(<<>>), Ok(<<Good>>)},
     reddit  |-> {Raise, Ok(<<>>), Ok(<<Poor>>)}]

PipelineResponses(qs) ==
    { [q \in Range(qs) |-> b[q.source]] :
        b \in [youtube : Behaviours.youtube, udemy : Behaviours.udemy,
               reddit : Behaviours.reddit] }

Init ==
    /\ profile \in PipelineProfiles
    /\ \E rp \in PipelineResponses(generate_queries(profile)) :
          resp = [r \in Runs |-> rp]
    /\ pc = [r \in Runs |-> "request"]
    /\ queries = [r \in Runs |-> <<>>]
    /\ tasks = [r \in Runs |-> <<>>]
    /\ results = [r \in Runs |-> <<>>]
    /\ all_resources = [r \in Runs |-> <<>>]
    /\ ranked_resources = [r \in Runs |-> <<>>]
    /\ filtered_resources = [r \in Runs |-> <<>>]
    /\ diversified_resources = [r \in Runs |-> <<>>]
    /\ learning_path = [r \in Runs |-> <<>>]
    /\ response = [r \in Runs |-> 0]
    /\ background_tasks = [r \in Runs |-> <<>>]
    /\ uniform_draws = [r \in Runs |-> <<>>]
    /\ min_rating_ = 20        \* min_rating=2.0 in generate_learning_path
    /\ max_per_source_ = 5     \* max_per_source=5 in generate_learning_path
    /\ NoSetup

Next ==
    \/ \E r \in Runs : GenerateQueries(r)
    \/ \E r \in Runs : StartFetch(r)
    \/ \E r \in Runs : \E t \in DOMAIN tasks[r] : SearchReturns(r, t)
    \/ \E r \in Runs : \E t \in DOMAIN tasks[r] : SearchRaises(r, t)
    \/ \E r \in Runs : GatherReturns(r)
    \/ \E r \in Runs : CombineResources(r)
    \/ \E r \in Runs : Rank(r)
    \/ \E r \in Runs : Filter(r)
    \/ \E r \in Runs : Diversify(r)
    \/ \E r \in Runs : Build(r)
    \/ \E r \in Runs : Respond(r)

Spec == Init /\ [][Next]_vars

(***************************************************************************)
(* Properties of the fetch (checked under SpecFetch)                       *)
(***************************************************************************)
BothFinished == \A r \in Runs : Finished(r)

SameResponses == resp[1] = resp[2]

RaisesIn(rp, s) == \E q \in DOMAIN rp : q.source = s /\ rp[q].kind = "raise"

AnyRaise(rp) == \E q \in DOMAIN rp : rp[q].kind = "raise"

Urls(rs) == {rs[i].url : i \in DOMAIN rs}

\* What the searches of a coroutine's queries returned, in query order.
RECURSIVE Returned(_, _, _)
Returned(rp, source, qs) ==
    IF qs = <<>> THEN <<>>
    ELSE (IF rp[qs[1]].kind = "ok" THEN ClientSearch(rp, source, qs[1]) ELSE <<>>)
         \o Returned(rp, source, Tail(qs))

\* C1: with the same queries and the same client responses, the per-source
\* lists returned by fetch_all_resources and the caller's combined list are
\* the same whatever the order in which the source tasks complete; the
\* combined list takes youtube first, then udemy, then reddit.
C1_OrderIndependent ==
    \A r \in Runs :
        Finished(r) =>
            /\ SubSeq([i \in DOMAIN results[r] |-> results[r][i].key], 1, 3)
                  = source_clients
            /\ all_resources[r] = Flatten(DictValues(results[r]))
            /\ \A p \in Runs :
                  (Finished(p) /\ SameResponses) =>
                      /\ results[p] = results[r]
                      /\ all_resources[p] = all_resources[r]

\* Two runs on the same input whose two source tasks completed in opposite
\* orders, both sources having returned resources.
C1_Witness ==
    /\ BothFinished
    /\ SameResponses
    /\ Len(tasks[1]) = 2
    /\ tasks[1][1].order = 1
    /\ tasks[2][1].order = 2
    /\ tasks[1][1].result # <<>>
    /\ tasks[1][2].result # <<>>
    /\ Len(all_resources[1]) >= 2

\* C2: when the searches of one source raise, every other entry of the
\* returned map holds what it would hold had nothing failed (run 2 is run 1
\* with the failing source's searches succeeding instead).
C2_OtherEntriesUnaffected ==
    \A s \in AnySource :
        ( /\ BothFinished
          /\ RaisesIn(resp[1], s)
          /\ resp[2] = Healed(resp[1], s)
          /\ ~AnyRaise(resp[2]) )
        => \A k \in AnySource \ {s} :
              /\ DictHas(results[1], k) <=> DictHas(results[2], k)
              /\ DictHas(results[1], k) =>
                    DictGet(results[1], k) = DictGet(results[2], k)

\* C3 (as stated): a source one of whose searches raised has an empty entry.
C3_RaisingSourceEntryEmpty ==
    \A r \in Runs :
        Finished(r) =>
            \A s \in Range(source_clients) :
                RaisesIn(resp[r], s) => DictGet(results[r], s) = <<>>

\* C3 (amended): a search that raises contributes nothing, and the source's
\* other searches still contribute: the list a source's fetch returns holds
\* exactly the urls its successful searches returned, every resource in it
\* coming from one of them; it is empty when every search of the source raised.
C3_RaisingSearchContributesNothing ==
    \A r \in Runs :
        \A t \in DOMAIN tasks[r] :
            tasks[r][t].done =>
                LET ok == Returned(resp[r], tasks[r][t].source, tasks[r][t].queries)
                IN  /\ Range(tasks[r][t].result) \subseteq Range(ok)
                    /\ Urls(tasks[r][t].result) = Urls(ok)
                    /\ (\A q \in Range(tasks[r][t].queries) : resp[r][q].kind = "raise")
                          => tasks[r][t].result = <<>>

\* A source whose first search raised and whose second returned resources.
C3_Witness ==
    \E r \in Runs :
        \E t \in DOMAIN tasks[r] :
            /\ tasks[r][t].done
            /\ Len(tasks[r][t].queries) = 2
            /\ resp[r][tasks[r][t].queries[1]].kind = "raise"
            /\ resp[r][tasks[r][t].queries[2]].kind = "ok"
            /\ tasks[r][t].result # <<>>

\* C4: after the merge no two resources of the combined list share a url.
C4_MergedUrlsUnique ==
    \A r \in Runs :
        Finished(r) =>
            \A i, j \in DOMAIN all_resources[r] :
                all_resources[r][i].url = all_resources[r][j].url => i = j

\* C5: of the resources one source fetched with the same url, exactly the
\* first seen (earlier query, then earlier position) is kept, whatever the
\* ratings.
C5_FirstSeenWins ==
    \A r \in Runs :
        \A t \in DOMAIN tasks[r] :
            tasks[r][t].done =>
                LET seen == tasks[r][t].all_resources
                    kept == tasks[r][t].result
                    First(u) == CHOOSE i \in DOMAIN seen :
                                    /\ seen[i].url = u
                                    /\ \A j \in DOMAIN seen : seen[j].url = u => i <= j
                IN  /\ seen = Returned(resp[r], tasks[r][t].source, tasks[r][t].queries)
                    /\ Urls(kept) = Urls(seen)
                    /\ \A i, j \in DOMAIN kept : kept[i].url = kept[j].url => i = j
                    /\ \A i \in DOMAIN kept : kept[i] = seen[First(kept[i].url)]
                    /\ \A i, j \in DOMAIN kept :
                          i < j => First(kept[i].url) < First(kept[j].url)

\* A source that saw a url first unrated and later rated 4.5, the two coming
\* from different queries, and kept the unrated one.
C5_Witness ==
    \E r \in Runs :
        \E t \in DOMAIN tasks[r] :
            /\ tasks[r][t].done
            /\ Len(tasks[r][t].queries) = 2
            /\ Len(tasks[r][t].all_resources) >= 2
            /\ tasks[r][t].all_resources[1].rating = Absent
            /\ \E j \in DOMAIN tasks[r][t].all_resources :
                  /\ j > Len(resp[r][tasks[r][t].queries[1]].items)
                  /\ tasks[r][t].all_resources[j].url = tasks[r][t].all_resources[1].url
                  /\ tasks[r][t].all_resources[j].rating = Some(45)
            /\ tasks[r][t].result[1].rating = Absent

\* C6: fetch_all_resources returns even if a search never completes: a run
\* that has not returned can always take a step.
C6_FetchAlwaysReturns ==
    BothFinished \/ ENABLED NextFetch

(***************************************************************************)
(* Properties of generate_queries (checked under SpecQueries)              *)
(***************************************************************************)
Generated(r) == pc[r] \in {"queries", "failed"}

CountFor(qs, source) == Len(SelectSeq(qs, LAMBDA q : q.source = source))

\* C7: generate_queries returns the empty list when the topic is the empty
\* string and a non-empty list when it is not.
C7_EmptyTopicGivesNoQueries ==
    \A r \in Runs :
        Generated(r) => (profile.topic = <<>> <=> queries[r] = <<>>)

\* C9 (as stated): each source gets between 2 and 4 queries.
C9_TwoToFourPerSource ==
    \A r \in Runs :
        Generated(r) =>
            \A s \in Range(source_clients) :
                CountFor(queries[r], s) \in 2..4

\* C9 (amended): udemy and reddit get between 2 and 4 queries each; youtube
\* gets 4, or 5 when the learning style is hands_on.
C9_QueriesPerSource ==
    \A r \in Runs :
        Generated(r) =>
            /\ CountFor(queries[r], "udemy") \in 2..4
            /\ CountFor(queries[r], "reddit") \in 2..4
            /\ CountFor(queries[r], "youtube")
                  = (IF profile.learning_style = "hands_on" THEN 5 ELSE 4)
            /\ Len(queries[r]) = CountFor(queries[r], "youtube")
                  + CountFor(queries[r], "udemy") + CountFor(queries[r], "reddit")

\* The queries of a hands_on profile have been generated.
C9_Witness ==
    \E r \in Runs :
        /\ Generated(r)
        /\ profile.learning_style = "hands_on"
        /\ CountFor(queries[r], "youtube") = 5

(***************************************************************************)
(* Properties of the whole request (checked under Spec)                    *)
(***************************************************************************)
\* The queries for which client.search has been called in run r.
SearchesIssued(r) ==
    UNION { { tasks[r][t].queries[i] :
                i \in 1..Min(tasks[r][t].i, Len(tasks[r][t].queries)) }
            : t \in DOMAIN tasks[r] }

\* C8: a request whose topic is empty is answered 400 and no client.search
\* call is issued for it.
C8_EmptyTopicRejectedBeforeSearch ==
    \A r \in Runs :
        profile.topic = <<>> =>
            /\ SearchesIssued(r) = {}
            /\ Answered(r) => response[r] = 400

\* The output of a request without the identifier and the time stamp drawn
\* for it: the steps with their resources and the path-level metadata.
PathContent(path) ==
    [steps |-> path.steps, title |-> path.title, description |-> path.description,
     total_duration |-> path.total_duration, difficulty_level |-> path.difficulty_level,
     tags |-> path.tags, user_profile |-> path.user_profile]

\* C10: two runs of the pipeline on the same profile and the same client
\* responses produce the same learning path.
C10_SameOutputTwice ==
    (pc[1] = "success" /\ pc[2] = "success" /\ SameResponses)
        => PathContent(learning_path[1][1]) = PathContent(learning_path[2][1])

(***************************************************************************)
(* rank_resources on an arbitrary bounded resource list.  Run 2 ranks      *)
(* either the same list or the list with one rating raised.                *)
(***************************************************************************)
\* Length of the longest list handed directly to a ranking-service function.
MaxRanked == 3

Rated(url, rating, published_date) ==
    LearningResource(<<"t">>, <<>>, url, "youtube", None, rating, Absent,
                     published_date, <<>>)

\* Two resources that score alike, a dated one, one rated 0 and an unrated one.
RankPool ==
    { Rated("r-a", Some(40), None), Rated("r-b", Some(40), None),
      Rated("r-d", Some(40), "2024-01-01"), Rated("r-z", Some(0), None),
      Rated("r-n", Absent, None) }

\* the ratings a rating is raised to: 4.5 and (above the scale) 5.5
RaisedRatings == {45, 55}

\* rs with the rating of its i-th resource raised, every other field kept
RaisedAt(rs, i) ==
    IF rs[i].rating = Absent THEN {}
    ELSE { [rs EXCEPT ![i].rating = Some(v)] : v \in {w \in RaisedRatings : w > rs[i].rating[1]} }

RankProfiles ==
    [topic : {<<"React">>}, experience_level : {"beginner"},
     learning_style : {"visual"}, goal : {"skill_building"},
     time_commitment : {Absent}]

InitRank ==
    /\ profile \in RankProfiles
    /\ \E rs \in SeqsUpTo(RankPool, MaxRanked) :
          \E other \in {rs} \cup UNION {RaisedAt(rs, i) : i \in DOMAIN rs} :
              all_resources = [r \in Runs |-> IF r = 1 THEN rs ELSE other]
    /\ pc = [r \in Runs |-> "combined"]
    /\ resp = [r \in Runs |-> <<>>]
    /\ queries = [r \in Runs |-> <<>>]
    /\ tasks = [r \in Runs |-> <<>>]
    /\ results = [r \in Runs |-> <<>>]
    /\ ranked_resources = [r \in Runs |-> <<>>]
    /\ filtered_resources = [r \in Runs |-> <<>>]
    /\ diversified_resources = [r \in Runs |-> <<>>]
    /\ learning_path = [r \in Runs |-> <<>>]
    /\ response = [r \in Runs |-> 0]
    /\ background_tasks = [r \in Runs |-> <<>>]
    /\ uniform_draws = [r \in Runs |-> <<>>]
    /\ min_rating_ = 20
    /\ max_per_source_ = 5
    /\ NoSetup

NextRank == \E r \in Runs : Rank(r)

SpecRank == InitRank /\ [][NextRank]_vars

(***************************************************************************)
(* Properties of rank_resources (checked under SpecRank)                   *)
(***************************************************************************)
Ranked(r) == pc[r] = "ranked"

\* the composite score computed for the i-th input resource in run r's call
ScoreOf(r, i) ==
    _calculate_resource_score(all_resources[r][i], profile, uniform_draws[r][i])

Bijections(S) == {f \in [S -> S] : \A a, b \in S : f[a] = f[b] => a = b}

\* C11: rank_resources returns the input resources, each once, in
\* non-increasing order of the composite score computed in that call, two
\* resources of equal score keeping their input order: the output is the
\* input rearranged by a one-to-one placement that is descending in score
\* and ascending in input position among equal scores.
C11_SortedStablePermutation ==
    \A r \in Runs :
        Ranked(r) =>
            /\ Len(ranked_resources[r]) = Len(all_resources[r])
            /\ \E from \in Bijections(DOMAIN all_resources[r]) :
                  /\ \A k \in DOMAIN ranked_resources[r] :
                        ranked_resources[r][k] = all_resources[r][from[k]]
                  /\ \A k, m \in DOMAIN ranked_resources[r] :
                        k < m =>
                            \/ ScoreOf(r, from[k]) > ScoreOf(r, from[m])
                            \/ /\ ScoreOf(r, from[k]) = ScoreOf(r, from[m])
                               /\ from[k] < from[m]

\* A ranked list that was reordered and in which two different resources of
\* equal score kept their input order.
C11_Witness ==
    \E r \in Runs :
        /\ Ranked(r)
        /\ ranked_resources[r] # all_resources[r]
        /\ \E i, j \in DOMAIN all_resources[r] :
              /\ i < j
              /\ all_resources[r][i] # all_resources[r][j]
              /\ ScoreOf(r, i) = ScoreOf(r, j)
              /\ \E k, m \in DOMAIN ranked_resources[r] :
                    /\ k < m
                    /\ ranked_resources[r][k] = all_resources[r][i]
                    /\ ranked_resources[r][m] = all_resources[r][j]

\* Run 2's input is run 1's with the rating of the i-th resource raised.
RaisedInput(i) ==
    /\ i \in DOMAIN all_resources[1]
    /\ all_resources[2] # all_resources[1]
    /\ all_resources[2] \in RaisedAt(all_resources[1], i)

UrlOnce(rs, i) == \A j \in DOMAIN rs : rs[j].url = rs[i].url => j = i

PositionOf(rs, url) == CHOOSE k \in DOMAIN rs : rs[k].url = url

\* C12: raising one resource's rating, every other field of every resource
\* unchanged, never lowers that resource's composite score and never moves
\* it to a later position in the output of rank_resources.
C12_RatingMonotone ==
    \A i \in DOMAIN all_resources[1] :
        ( /\ Ranked(1) /\ Ranked(2)
          /\ RaisedInput(i)
          /\ UrlOnce(all_resources[1], i) )
        => /\ ScoreOf(2, i) >= ScoreOf(1, i)
           /\ PositionOf(ranked_resources[2], all_resources[1][i].url)
                 <= PositionOf(ranked_resources[1], all_resources[1][i].url)

(***************************************************************************)
(* filter_by_quality_threshold and diversify_results on an arbitrary       *)
(* bounded resource list, threshold and cap.                               *)
(***************************************************************************)
\* The largest cap handed to diversify_results.
MaxCap == 2

From(url, source, rating) ==
    LearningResource(<<"t">>, <<>>, url, source, None, rating, Absent, None, <<>>)

\* Ratings 4.5, 1.5, none and 0, from two sources.
SelectPool ==
    { From("s-1", "youtube", Some(45)), From("s-2", "youtube", Some(15)),
      From("s-3", "youtube", Absent), From("s-4", "udemy", Some(0)) }

\* thresholds 0 and 2.0
Thresholds == {0, 20}

InitSelect ==
    /\ profile = NoProfile
    /\ \E rs \in SeqsUpTo(SelectPool, MaxRanked) :
          /\ all_resources = [r \in Runs |-> rs]
          /\ ranked_resources = [r \in Runs |-> rs]
    /\ min_rating_ \in Thresholds
    /\ max_per_source_ \in 0..MaxCap
    /\ NoSetup
    /\ pc = [r \in Runs |-> "ranked"]
    /\ resp = [r \in Runs |-> <<>>]
    /\ queries = [r \in Runs |-> <<>>]
    /\ tasks = [r \in Runs |-> <<>>]
    /\ results = [r \in Runs |-> <<>>]
    /\ filtered_resources = [r \in Runs |-> <<>>]
    /\ diversified_resources = [r \in Runs |-> <<>>]
    /\ learning_path = [r \in Runs |-> <<>>]
    /\ response = [r \in Runs |-> 0]
    /\ background_tasks = [r \in Runs |-> <<>>]
    /\ uniform_draws = [r \in Runs |-> <<>>]

NextSelect ==
    \/ \E r \in Runs : Filter(r)
    \/ \E r \in Runs : Diversify(r)

SpecSelect == InitSelect /\ [][NextSelect]_vars

(***************************************************************************)
(* Properties of the two selections (checked under SpecSelect)             *)
(***************************************************************************)
\* The elements of rs at the positions in K, in the order of rs.
RECURSIVE Pick(_, _)
Pick(rs, K) ==
    IF rs = <<>> THEN <<>>
    ELSE Pick(SubSeq(rs, 1, Len(rs) - 1), K)
         \o (IF Len(rs) \in K THEN <<rs[Len(rs)]>> ELSE <<>>)

\* how many resources before position i have the source of the i-th
EarlierOfSource(rs, i) ==
    Cardinality({j \in 1..(i - 1) : rs[j].source = rs[i].source})

OfSource(rs, source) == SelectSeq(rs, LAMBDA x : x.source = source)

Diversified(r) == pc[r] = "diversified"

\* C13: diversify_results with max_per_source = k returns its input with
\* every resource beyond the k-th of its source removed: at most k resources
\* per source, the kept ones of a source being its first min(k, count) in
\* input order, and the kept resources in their input order.
C13_FirstKPerSource ==
    \A r \in Runs :
        Diversified(r) =>
            LET input == filtered_resources[r]
                output == diversified_resources[r]
                k == max_per_source_
            IN  /\ output = Pick(input, {i \in DOMAIN input : EarlierOfSource(input, i) < k})
                /\ \A x \in Range(input) :
                      LET all == OfSource(input, x.source)
                      IN  OfSource(output, x.source)
                             = SubSeq(all, 1, Min(k, Len(all)))

\* Under a cap of 2 the third resource of a source was removed from a list
\* of three.
C13_Witness ==
    \E r \in Runs :
        /\ Diversified(r)
        /\ max_per_source_ = 2
        /\ Len(filtered_resources[r]) = 3
        /\ Len(diversified_resources[r]) = 2
        /\ filtered_resources[r][1].source = filtered_resources[r][3].source
        /\ filtered_resources[r][2].source = filtered_resources[r][3].source

\* C14: filter_by_quality_threshold returns, in input order, exactly the
\* resources whose rating is absent or at least min_rating; a rating of 0
\* counts as a rating and is dropped whenever min_rating > 0.
C14_KeepsUnratedAndRatedEnough ==
    \A r \in Runs :
        pc[r] \in {"filtered", "diversified"} =>
            LET input == ranked_resources[r]
                output == filtered_resources[r]
            IN  /\ output = Pick(input, {i \in DOMAIN input :
                                            \/ input[i].rating = Absent
                                            \/ input[i].rating[1] >= min_rating_})
                /\ min_rating_ > 0 =>
                      \A x \in Range(output) : x.rating # Some(0)
                /\ \A x \in Range(input) : x.rating = Absent => x \in Range(output)

\* A list holding a resource rated 0, an unrated one and one rated 4.5 was
\* filtered with the threshold 2.0.
C14_Witness ==
    \E r \in Runs :
        /\ pc[r] = "filtered"
        /\ min_rating_ = 20
        /\ \E x \in Range(ranked_resources[r]) : x.rating = Some(0)
        /\ \E x \in Range(ranked_resources[r]) : x.rating = Absent
        /\ Len(filtered_resources[r]) = 2

(***************************************************************************)
(* build_learning_path on a ranked list of any length up to a bound        *)
(***************************************************************************)
\* Length of the longest list handed directly to build_learning_path.
MaxPathResources == 11

\* n different resources
Listed(n) ==
    [i \in 1..n |-> From(<<"p", ToString(i)>>, "youtube", Absent)]

BuildProfiles ==
    [topic : {<<"React">>}, experience_level : ExperienceLevel,
     learning_style : {"visual"}, goal : {"skill_building"},
     time_commitment : {Absent}]

InitBuild ==
    /\ profile \in BuildProfiles
    /\ \E n \in 0..MaxPathResources :
          diversified_resources = [r \in Runs |-> Listed(n)]
    /\ pc = [r \in Runs |-> "diversified"]
    /\ resp = [r \in Runs |-> <<>>]
    /\ queries = [r \in Runs |-> <<>>]
    /\ tasks = [r \in Runs |-> <<>>]
    /\ results = [r \in Runs |-> <<>>]
    /\ all_resources = [r \in Runs |-> <<>>]
    /\ ranked_resources = [r \in Runs |-> <<>>]
    /\ filtered_resources = [r \in Runs |-> <<>>]
    /\ learning_path = [r \in Runs |-> <<>>]
    /\ response = [r \in Runs |-> 0]
    /\ background_tasks = [r \in Runs |-> <<>>]
    /\ uniform_draws = [r \in Runs |-> <<>>]
    /\ min_rating_ = 20
    /\ max_per_source_ = 5
    /\ NoSetup

NextBuild ==
    \/ \E r \in Runs : Build(r)
    \/ \E r \in Runs : Respond(r)

SpecBuild == InitBuild /\ [][NextBuild]_vars

(***************************************************************************)
(* Properties of build_learning_path (checked under SpecBuild)             *)
(***************************************************************************)
Built(r) == pc[r] \in {"built", "success"}

Steps(r) == learning_path[r][1].steps

StepResources(r) == [i \in DOMAIN Steps(r) |-> Steps(r)[i].resources]

\* C15: for every experience level and every number n >= 0 of ranked
\* resources, build_learning_path returns (it can always be taken to its
\* end) a path with exactly 5 steps numbered 1, 2, 3, 4, 5 in that order.
C15_FiveNumberedSteps ==
    \A r \in Runs :
        /\ pc[r] = "diversified" => ENABLED Build(r)
        /\ Built(r) =>
              /\ Len(Steps(r)) = 5
              /\ \A i \in 1..5 : Steps(r)[i].step_number = i

\* A path was built from no resource at all.
C15_Witness ==
    \E r \in Runs :
        /\ Built(r)
        /\ diversified_resources[r] = <<>>
        /\ Len(Steps(r)) = 5

\* C16 (as stated): each of steps 1 to 4 holds exactly floor(n/5) resources
\* in ranked order, and step 5 the remaining n - 4*floor(n/5), which is at
\* least floor(n/5).
C16_FloorPerStep ==
    \A r \in Runs :
        Built(r) =>
            LET input == diversified_resources[r]
                n == Len(input)
                q == n \div 5
            IN  /\ \A i \in 1..4 :
                      Steps(r)[i].resources = SubSeq(input, (i - 1) * q + 1, i * q)
                /\ Steps(r)[5].resources = SubSeq(input, 4 * q + 1, n)
                /\ Len(Steps(r)[5].resources) >= q

\* C16 (amended): with p = max(1, floor(n/5)), each of steps 1 to 4 holds the
\* next p resources in ranked order, or the fewer that are left, and step 5
\* holds all that remain after them.  So for n >= 5 steps 1 to 4 hold
\* floor(n/5) each and step 5 the other n - 4*floor(n/5) >= floor(n/5); for
\* n < 5 steps 1 to n hold one resource each and the later steps none.
C16_AtLeastOnePerStepWhileTheyLast ==
    \A r \in Runs :
        Built(r) =>
            LET input == diversified_resources[r]
                n == Len(input)
                q == n \div 5
                p == IF q >= 1 THEN q ELSE 1
                Upto(m) == IF m < n THEN m ELSE n
            IN  /\ \A i \in 1..4 :
                      Steps(r)[i].resources
                          = SubSeq(input, Upto((i - 1) * p) + 1, Upto(i * p))
                /\ Steps(r)[5].resources = SubSeq(input, Upto(4 * p) + 1, n)
                /\ n >= 5 =>
                      /\ \A i \in 1..4 : Len(Steps(r)[i].resources) = q
                      /\ Len(Steps(r)[5].resources) = n - 4 * q
                      /\ Len(Steps(r)[5].resources) >= q
                /\ n < 5 =>
                      \A i \in 1..5 :
                          Steps(r)[i].resources
                              = (IF i <= n THEN <<input[i]>> ELSE <<>>)

\* A path was built from 3 resources: one in each of the first three steps,
\* none in steps 4 and 5.
C16_Witness ==
    \E r \in Runs :
        /\ Built(r)
        /\ Len(diversified_resources[r]) = 3
        /\ Len(Steps(r)[1].resources) = 1
        /\ Steps(r)[5].resources = <<>>

\* C17: the resource lists of the 5 steps, concatenated in step order, are
\* the input list: every resource is in exactly one step, the order is kept
\* and the step counts add up to the input count.
C17_StepsPartitionInput ==
    \A r \in Runs :
        Built(r) =>
            /\ Flatten(StepResources(r)) = diversified_resources[r]
            /\ Len(Flatten(StepResources(r))) = Len(diversified_resources[r])

\* A path was built from 11 resources, the last step taking the remainder.
C17_Witness ==
    \E r \in Runs :
        /\ Built(r)
        /\ Len(diversified_resources[r]) = 11
        /\ Len(Steps(r)[1].resources) = 2
        /\ Len(Steps(r)[5].resources) = 3

(***************************************************************************)
(* More properties of the whole request (checked under Spec)               *)
(***************************************************************************)
\* The resources the client.search calls of run r's queries return.
FetchedBy(r) ==
    UNION { Range(ClientSearch(resp[r], q.source, q)) :
              q \in {x \in Range(queries[r]) : resp[r][x].kind = "ok"} }

\* C18: every resource in the steps of the returned path is one of the
\* resources a client.search call of the same request returned; the merge,
\* the ranking, the filter, the diversification and the path builder hold
\* only such resources, unchanged.
C18_NoFabrication ==
    \A r \in Runs :
        /\ Range(all_resources[r]) \subseteq FetchedBy(r)
        /\ Range(ranked_resources[r]) \subseteq Range(all_resources[r])
        /\ Range(filtered_resources[r]) \subseteq Range(ranked_resources[r])
        /\ Range(diversified_resources[r]) \subseteq Range(filtered_resources[r])
        /\ pc[r] \in {"built", "success"} =>
              \A i \in DOMAIN learning_path[r][1].steps :
                  /\ Range(learning_path[r][1].steps[i].resources)
                        \subseteq Range(diversified_resources[r])
                  /\ Range(learning_path[r][1].steps[i].resources)
                        \subseteq FetchedBy(r)

\* A request answered with a path whose steps hold resources of two sources.
C18_Witness ==
    \E r \in Runs :
        /\ pc[r] = "success"
        /\ \E i, j \in DOMAIN learning_path[r][1].steps :
              /\ \E x \in Range(learning_path[r][1].steps[i].resources) :
                    x.source = "youtube"
              /\ \E x \in Range(learning_path[r][1].steps[j].resources) :
                    x.source = "udemy"

\* Every search of run r raises or returns no resource.
NothingFound(r) ==
    \A q \in DOMAIN resp[r] : resp[r][q].kind = "raise" \/ resp[r][q].items = <<>>

\* C19: when every source returns nothing or fails, fetch_all_resources
\* returns with empty lists (the request never leaves the fetch by another
\* way) and the request is answered 404 with nothing ranked, no path built
\* and no save scheduled.
C19_NothingFoundGives404 ==
    \A r \in Runs :
        NothingFound(r) =>
            /\ pc[r] \notin {"combined", "ranked", "filtered", "diversified", "built",
                              "success"}
            /\ pc[r] \in {"fetched", "failed"} => results[r] = EmptyResults
            /\ pc[r] = "failed" =>
                  /\ response[r] = 404
                  /\ ranked_resources[r] = <<>>
                  /\ learning_path[r] = <<>>
                  /\ background_tasks[r] = <<>>

\* A request was answered 404 after searches that raised and searches that
\* returned nothing.
C19_Witness ==
    \E r \in Runs :
        /\ NothingFound(r)
        /\ pc[r] = "failed"
        /\ response[r] = 404
        /\ \E q \in DOMAIN resp[r] : resp[r][q].kind = "raise"
        /\ \E q \in DOMAIN resp[r] : resp[r][q].kind = "ok"

(***************************************************************************)
(* More properties of the fetch (checked under SpecFetch)                  *)
(***************************************************************************)
\* The searches of run r that have been called and have not yet completed.
InFlight(r) ==
    { PendingQuery(tasks[r][t]) : t \in {u \in DOMAIN tasks[r] : ~tasks[r][u].done} }

\* C20: fetch_all_resources starts exactly one task per distinct source with
\* a registered client, holding that source's queries in query order; a task
\* has searched exactly the queries before its current one, in order, so no
\* two searches of one request are in flight against the same source.
C20_OneTaskPerSource ==
    \A r \in Runs :
        pc[r] # "queries" =>
            /\ \A t, u \in DOMAIN tasks[r] :
                  tasks[r][t].source = tasks[r][u].source => t = u
            /\ {tasks[r][t].source : t \in DOMAIN tasks[r]}
                  = {q.source : q \in Range(queries[r])} \cap Range(source_clients)
            /\ \A t \in DOMAIN tasks[r] :
                  /\ tasks[r][t].queries
                        = SelectSeq(queries[r], LAMBDA q : q.source = tasks[r][t].source)
                  /\ tasks[r][t].all_resources
                        = Returned(resp[r], tasks[r][t].source,
                                   SubSeq(tasks[r][t].queries, 1, tasks[r][t].i - 1))
            /\ \A q1, q2 \in InFlight(r) : q1.source = q2.source => q1 = q2

\* One task holds the two queries of a source and is in its second search,
\* the first having returned resources.
C20_Witness ==
    \E r \in Runs :
        /\ pc[r] = "gather"
        /\ Len(queries[r]) = 2
        /\ Len(tasks[r]) = 1
        /\ tasks[r][1].i = 2
        /\ ~tasks[r][1].done
        /\ tasks[r][1].all_resources # <<>>

(***************************************************************************)
(* Two requests in flight together: the second request is handled while    *)
(* the first is suspended in its fetch.  The handlers share the module     *)
(* level services of main.py and nothing else.                             *)
(***************************************************************************)
FirstBehaviours ==
    [youtube |-> {Raise, Ok(<<DatedA>>)},
     udemy   |-> {Ok(<<Good>>)},
     reddit  |-> {Ok(<<>>)}]

SecondBehaviours ==
    [youtube |-> {Ok(<<DatedB, Poor>>)},
     udemy   |-> {Raise},
     reddit  |-> {Ok(<<>>)}]

ResponsesOf(qs, behaviours) ==
    { [q \in Range(qs) |-> b[q.source]] :
        b \in [youtube : behaviours.youtube, udemy : behaviours.udemy,
               reddit : behaviours.reddit] }

InitInterleaved ==
    /\ profile \in {p \in PipelineProfiles : p.topic # <<>>}
    /\ \E rp1 \in ResponsesOf(generate_queries(profile), FirstBehaviours) :
          \E rp2 \in ResponsesOf(generate_queries(profile), SecondBehaviours) :
              resp = [r \in Runs |-> IF r = 1 THEN rp1 ELSE rp2]
    /\ pc = [r \in Runs |-> "request"]
    /\ queries = [r \in Runs |-> <<>>]
    /\ tasks = [r \in Runs |-> <<>>]
    /\ results = [r \in Runs |-> <<>>]
    /\ all_resources = [r \in Runs |-> <<>>]
    /\ ranked_resources = [r \in Runs |-> <<>>]
    /\ filtered_resources = [r \in Runs |-> <<>>]
    /\ diversified_resources = [r \in Runs |-> <<>>]
    /\ learning_path = [r \in Runs |-> <<>>]
    /\ response = [r \in Runs |-> 0]
    /\ background_tasks = [r \in Runs |-> <<>>]
    /\ uniform_draws = [r \in Runs |-> <<>>]
    /\ min_rating_ = 20        \* min_rating=2.0 in generate_learning_path
    /\ max_per_source_ = 5     \* max_per_source=5 in generate_learning_path
    /\ NoSetup

\* The handlers are coroutines of one event loop: a handler that is running
\* keeps running until it suspends in the gather of its fetch or returns, so
\* another handler moves only while every other one is suspended, not yet
\* called or over.
Running(r) == pc[r] \notin {"request", "gather", "failed", "success"}

OthersSuspended(r) == \A p \in Runs \ {r} : ~Running(p)

NextInterleaved ==
    \/ \E r \in Runs : OthersSuspended(r) /\ CallGenerateQueries(r)
    \/ \E r \in Runs : OthersSuspended(r) /\ CallFetch(r)
    \/ \E r \in Runs : \E t \in DOMAIN tasks[r] :
          OthersSuspended(r) /\ SearchReturns(r, t)
    \/ \E r \in Runs : \E t \in DOMAIN tasks[r] :
          OthersSuspended(r) /\ SearchRaises(r, t)
    \/ \E r \in Runs : OthersSuspended(r) /\ GatherReturns(r)
    \/ \E r \in Runs : OthersSuspended(r) /\ CombineResources(r)
    \/ \E r \in Runs : OthersSuspended(r) /\ Rank(r)
    \/ \E r \in Runs : OthersSuspended(r) /\ Filter(r)
    \/ \E r \in Runs : OthersSuspended(r) /\ Diversify(r)
    \/ \E r \in Runs : OthersSuspended(r) /\ Build(r)
    \/ \E r \in Runs : OthersSuspended(r) /\ Respond(r)

SpecInterleaved == InitInterleaved /\ [][NextInterleaved]_vars

(***************************************************************************)
(* Properties of interleaved requests (checked under SpecInterleaved)      *)
(***************************************************************************)
\* What fetch_all_resources returns for the queries qs when it runs alone and
\* the searches answer as rp says: each registered source's searches in query
\* order, deduplicated, stored as the code stores them.
AloneResults(rp, qs) ==
    LET queries_by_source == GroupBySource(qs)
        withClient == SelectSeq(queries_by_source,
                                LAMBDA e : e.key \in Range(source_clients))
        source_results ==
            [i \in DOMAIN withClient |->
                RemoveDuplicates(Returned(rp, withClient[i].key, withClient[i].value))]
    IN  CombineResults(queries_by_source, source_results, Len(queries_by_source))

AloneAll(r) == ConcatResources(AloneResults(resp[r], generate_queries(profile)))

AloneStatus(r) ==
    IF generate_queries(profile) = <<>> THEN 400
    ELSE IF AloneAll(r) = <<>> THEN 404 ELSE 200

AloneDiversified(r) ==
    diversify_results(
        filter_by_quality_threshold(
            rank_resources(AloneAll(r), profile, uniform_draws[r]), min_rating_),
        max_per_source_)

\* C21: a request handled while another request is suspended in its fetch
\* produces what it produces alone: its fetched map is the one its own
\* responses give, its status is the one they give, and its path is the path
\* built from its own responses, its own draws of random.uniform and its own
\* path id and creation time.
C21_InterleavedAsAlone ==
    \A r \in Runs :
        /\ pc[r] \notin {"request", "queries", "gather"} =>
              \/ pc[r] = "failed" /\ queries[r] = <<>>
              \/ results[r] = AloneResults(resp[r], generate_queries(profile))
        /\ pc[r] = "failed" =>
              /\ response[r] = AloneStatus(r)
              /\ learning_path[r] = <<>>
        /\ pc[r] \in {"diversified", "built", "success"} =>
              diversified_resources[r] = AloneDiversified(r)
        /\ pc[r] = "success" =>
              /\ AloneStatus(r) = 200
              /\ response[r] = 200
              /\ learning_path[r]
                    = << build_learning_path(profile, AloneDiversified(r),
                                             learning_path[r][1].path_id,
                                             learning_path[r][1].created_at) >>

\* A request has been answered with a path that holds resources while the
\* other request, whose clients answer differently, is suspended in its fetch
\* with one source finished and another source part of the way.
C21_Witness ==
    \E r, p \in Runs :
        /\ r # p
        /\ resp[r] # resp[p]
        /\ pc[r] = "success"
        /\ \E i \in DOMAIN learning_path[r][1].steps :
              learning_path[r][1].steps[i].resources # <<>>
        /\ pc[p] = "gather"
        /\ \E t, u \in DOMAIN tasks[p] :
              /\ tasks[p][t].done
              /\ ~tasks[p][u].done
              /\ tasks[p][u].i > 1

(***************************************************************************)
(* The order of the stages (checked under Spec)                            *)
(***************************************************************************)
\* The outputs of the stages of run r, in stage order.
StageOutputs(r) ==
    << queries[r], tasks[r], results[r], all_resources[r], ranked_resources[r],
       filtered_resources[r], diversified_resources[r], learning_path[r] >>

\* The outputs of run r are left as they are, except the n-th.
OnlyOutput(r, n) ==
    \A k \in DOMAIN StageOutputs(r) : k # n => StageOutputs(r)'[k] = StageOutputs(r)[k]

\* C22: a request goes through generate_queries, fetch, rank, filter,
\* diversify and build in this order and in no other; every stage writes its
\* own output only, computed from the output of the stage before it, and the
\* path is built from the diversified list.
C22_StagesInOrder ==
    [][\A r \in Runs :
          pc'[r] # pc[r] =>
              \/ /\ pc[r] = "request" /\ pc'[r] \in {"queries", "failed"}
                 /\ queries'[r] = generate_queries(profile)
                 /\ pc'[r] = "failed" <=> queries'[r] = <<>>
                 /\ OnlyOutput(r, 1)
              \/ /\ pc[r] = "queries" /\ pc'[r] = "gather"
                 /\ tasks'[r] = CreateTasks(GroupBySource(queries[r]))
                 /\ OnlyOutput(r, 2)
              \/ /\ pc[r] = "gather" /\ pc'[r] = "fetched"
                 /\ \A t \in DOMAIN tasks[r] : tasks[r][t].done
                 /\ results'[r]
                       = CombineResults(GroupBySource(queries[r]), SourceResults(tasks[r]),
                                        Len(GroupBySource(queries[r])))
                 /\ OnlyOutput(r, 3)
              \/ /\ pc[r] = "fetched" /\ pc'[r] \in {"combined", "failed"}
                 /\ all_resources'[r] = ConcatResources(results[r])
                 /\ pc'[r] = "failed" <=> all_resources'[r] = <<>>
                 /\ OnlyOutput(r, 4)
              \/ /\ pc[r] = "combined" /\ pc'[r] = "ranked"
                 /\ ranked_resources'[r]
                       = rank_resources(all_resources[r], profile, uniform_draws'[r])
                 /\ OnlyOutput(r, 5)
              \/ /\ pc[r] = "ranked" /\ pc'[r] = "filtered"
                 /\ filtered_resources'[r]
                       = filter_by_quality_threshold(ranked_resources[r], 20)
                 /\ OnlyOutput(r, 6)
              \/ /\ pc[r] = "filtered" /\ pc'[r] = "diversified"
                 /\ diversified_resources'[r] = diversify_results(filtered_resources[r], 5)
                 /\ OnlyOutput(r, 7)
              \/ /\ pc[r] = "diversified" /\ pc'[r] = "built"
                 /\ \E stamp \in Stamps :
                       learning_path'[r]
                          = << build_learning_path(profile, diversified_resources[r],
                                                   stamp.path_id, stamp.created_at) >>
                 /\ OnlyOutput(r, 8)
              \/ /\ pc[r] = "built" /\ pc'[r] = "success"
                 /\ response'[r] = 200
                 /\ OnlyOutput(r, 0)]_vars

\* A request went through every stage: the ranking reordered the fetched
\* resources, the filter removed one of them and the path holds the rest.
C22_Witness ==
    \E r \in Runs :
        /\ pc[r] = "success"
        /\ ranked_resources[r] # all_resources[r]
        /\ Len(filtered_resources[r]) < Len(ranked_resources[r])
        /\ diversified_resources[r] # <<>>
        /\ \E i \in DOMAIN learning_path[r][1].steps :
              learning_path[r][1].steps[i].resources # <<>>

(***************************************************************************)
(* More properties of the path builder (checked under SpecBuild)           *)
(***************************************************************************)
\* C23: when fewer than five resources reach the path builder, the path
\* still has the five steps numbered 1 to 5, and every step after the n-th
\* holds an empty resource list.
C23_FewResourcesKeepFiveSteps ==
    \A r \in Runs :
        (Built(r) /\ Len(diversified_resources[r]) < 5) =>
            /\ DOMAIN Steps(r) = 1..5
            /\ \A i \in 1..5 : Steps(r)[i].step_number = i
            /\ \A i \in (Len(diversified_resources[r]) + 1)..5 :
                  Steps(r)[i].resources = <<>>

\* A path was built from two resources: steps 1 and 2 hold them and steps
\* 3, 4 and 5 are there and empty.
C23_Witness ==
    \E r \in Runs :
        /\ Built(r)
        /\ Len(diversified_resources[r]) = 2
        /\ Steps(r)[2].resources # <<>>
        /\ Steps(r)[3].resources = <<>>
        /\ Steps(r)[5].resources = <<>>

(***************************************************************************)
(* rank_resources on resources of every difficulty, for every level        *)
(***************************************************************************)
Leveled(url, difficulty) ==
    LearningResource(<<"t">>, <<>>, url, "udemy", difficulty, Some(40), Absent, None,
                     <<>>)

\* One resource for each difficulty the clients write, one whose difficulty is
\* not a level, one with an empty difficulty and one with none.
LeveledPool ==
    { Leveled("l-b", "Beginner"), Leveled("l-i", "Intermediate"),
      Leveled("l-a", "Advanced"), Leveled("l-x", "Expert"), Leveled("l-e", ""),
      Leveled("l-n", None) }

LeveledProfiles ==
    [topic : {<<"React">>}, experience_level : ExperienceLevel,
     learning_style : {"visual"}, goal : {"skill_building"},
     time_commitment : {Absent}]

\* Length of the longest list of resources with a difficulty that is ranked.
MaxLeveled == 2

InitLeveled ==
    /\ profile \in LeveledProfiles
    /\ \E rs \in SeqsUpTo(LeveledPool, MaxLeveled) :
          all_resources = [r \in Runs |-> rs]
    /\ pc = [r \in Runs |-> "combined"]
    /\ resp = [r \in Runs |-> <<>>]
    /\ queries = [r \in Runs |-> <<>>]
    /\ tasks = [r \in Runs |-> <<>>]
    /\ results = [r \in Runs |-> <<>>]
    /\ ranked_resources = [r \in Runs |-> <<>>]
    /\ filtered_resources = [r \in Runs |-> <<>>]
    /\ diversified_resources = [r \in Runs |-> <<>>]
    /\ learning_path = [r \in Runs |-> <<>>]
    /\ response = [r \in Runs |-> 0]
    /\ background_tasks = [r \in Runs |-> <<>>]
    /\ uniform_draws = [r \in Runs |-> <<>>]
    /\ min_rating_ = 20
    /\ max_per_source_ = 5
    /\ NoSetup

NextLeveled == \E r \in Runs : Rank(r)

SpecLeveled == InitLeveled /\ [][NextLeveled]_vars

(***************************************************************************)
(* Properties of the difficulty multiplier (checked under SpecLeveled)     *)
(***************************************************************************)
\* The composite score of the i-th input resource of run r had it no
\* difficulty, so that nothing multiplies it (in the same units as ScoreOf,
\* which carry a factor 100).
UnmultipliedScore(r, i) ==
    _calculate_resource_score([all_resources[r][i] EXCEPT !.difficulty = None],
                              profile, uniform_draws[r][i]) \div 100

\* the level a difficulty names, whatever its case
LevelOf(difficulty) ==
    CASE difficulty \in {"Beginner", "beginner"} -> "beginner"
      [] difficulty \in {"Intermediate", "intermediate"} -> "intermediate"
      [] difficulty \in {"Advanced", "advanced"} -> "advanced"
      [] OTHER -> None

\* C24: the composite score of a resource is its unmultiplied score times
\* 1 + 0.2 * preference[level][difficulty] (here in hundredths: 100 + 2 * the
\* preference in tenths); the multiplier lies in [1.0, 1.2], is exactly 1.0
\* for a resource with no difficulty, and for each level is largest, 1.2,
\* for the difficulty equal to the level.
C24_DifficultyMultiplier ==
    \A r \in Runs :
        Ranked(r) =>
            \A i \in DOMAIN all_resources[r] :
                LET level == profile.experience_level
                    difficulty == all_resources[r][i].difficulty
                    preference ==
                        IF LevelOf(difficulty) = None THEN 0
                        ELSE difficulty_preferences[level][LevelOf(difficulty)]
                    multiplier == 100 + 2 * preference
                IN  /\ ScoreOf(r, i) = UnmultipliedScore(r, i) * multiplier
                    /\ UnmultipliedScore(r, i) > 0
                    /\ multiplier \in 100..120
                    /\ difficulty = None => multiplier = 100
                    /\ LevelOf(difficulty) = level => multiplier = 120
                    /\ LevelOf(difficulty) # level => multiplier < 120
                    /\ \A other \in DOMAIN all_resources[r] :
                          LevelOf(difficulty) = level =>
                              ScoreOf(r, other) <= ScoreOf(r, i)

\* An intermediate learner's ranking put an Advanced resource (preference
\* 0.7) before a Beginner one (preference 0.5) that came first in the input,
\* the two being alike in everything else.
C24_Witness ==
    \E r \in Runs :
        /\ Ranked(r)
        /\ profile.experience_level = "intermediate"
        /\ all_resources[r] = <<Leveled("l-b", "Beginner"), Leveled("l-a", "Advanced")>>
        /\ ranked_resources[r] = <<Leveled("l-a", "Advanced"), Leveled("l-b", "Beginner")>>

\* C25: step 1 of a built path has no prerequisite, and every step i > 1
\* has "Complete Step i-1" as its first prerequisite.
C25_PrerequisiteChain ==
    \A r \in Runs :
        Built(r) =>
            /\ Steps(r)[1].step_number = 1
            /\ Steps(r)[1].prerequisites = <<>>
            /\ \A i \in DOMAIN Steps(r) :
                  Steps(r)[i].step_number > 1 =>
                      /\ Steps(r)[i].prerequisites # <<>>
                      /\ Steps(r)[i].prerequisites[1]
                            = <<"Complete Step", ToString(Steps(r)[i].step_number - 1)>>

\* A path was built whose step 2 asks for step 1 only and whose step 5 asks
\* for step 4 and for something more.
C25_Witness ==
    \E r \in Runs :
        /\ Built(r)
        /\ Steps(r)[2].prerequisites = << <<"Complete Step", "1">> >>
        /\ Len(Steps(r)[5].prerequisites) = 2
        /\ Steps(r)[5].prerequisites[1] = <<"Complete Step", "4">>

\* the weeks of a step of m resources for a learner of the given level:
\* d = 2m days, times 1.5 for a beginner, times 0.7 truncated for an advanced
\* learner, and max(1, floor(d / 7)) weeks
WeeksFor(m, level) ==
    LET d == IF level = "beginner" THEN 3 * m
             ELSE IF level = "advanced" THEN (14 * m) \div 10
             ELSE 2 * m
        w == d \div 7
    IN  IF w >= 1 THEN w ELSE 1

C27_EveryKeyHoldsItsOwnSource ==
    \A r \in Runs :
        Finished(r) =>
            /\ \A e \in Range(results[r]) :
                  \A x \in Range(e.value) : x.source = e.key
            /\ \A s \in Range(source_clients) :
                  DictGet(results[r], s)
                     = RemoveDuplicates(
                          Returned(resp[r], s,
                                   SelectSeq(queries[r], LAMBDA q : q.source = s)))

(***************************************************************************)
(* backend_new: api/v1/endpoints/learning_paths.complete_setup and the     *)
(* repositories it writes through.  The paths and tasks tables live in the *)
(* database service; every repository call is one statement sent to it     *)
(* through the synchronous Supabase client.  The calls of complete_setup   *)
(* are for one user and one category.  A call is handled by one of the     *)
(* server's worker processes: the calls of one worker are coroutines of    *)
(* one event loop, which switches only where a coroutine really suspends   *)
(* (asyncio.sleep, the LLM and scraper requests); the repository           *)
(* coroutines never suspend.  Calls of different workers meet only in the  *)
(* database.                                                               *)
(***************************************************************************)
\* Largest number of resources in a synthesized path (one task is saved for each).
MaxTasks == 2

Workers == {1, 2}

\* the one user and category of the calls
TheUser == "user-1"

TheCategory == 7

\* a row of the paths table
PathRow(path_id, ai_generated) ==
    [path_id |-> path_id, user_id |-> TheUser, category_id |-> TheCategory,
     ai_generated |-> ai_generated]

\* a row of the tasks table
TaskRow(path_id, task_order) == [path_id |-> path_id, task_order |-> task_order]

\* A call of complete_setup that has been received and not yet started.
NewCall(force, worker) ==
    [pc |-> "start", force |-> force, worker |-> worker,
     existing_ai_for_category |-> FALSE, learning_path |-> <<>>,
     saved_path |-> 0, saved_tasks |-> 0, success |-> "none", message |-> "none"]

\* return MLCompleteSetupResponse(success=..., message=...)
Return(call, success, message) ==
    [call EXCEPT !.pc = "returned", !.success = success, !.message = message]

\* PathRepository.get_user_paths and the search for an AI-generated path of
\* the category in what it returns
ExistingAiForCategory ==
    \E i \in DOMAIN path_store :
        /\ path_store[i].user_id = TheUser
        /\ path_store[i].category_id = TheCategory
        /\ path_store[i].ai_generated

\* The coroutine of call r is between two suspensions.
InHandler(r) == setup[r].pc \in {"guard", "final_check", "create_path", "create_task"}

\* The event loop of call r's worker is free to run it.
LoopFree(r) ==
    \A p \in Runs \ {r} : setup[p].worker = setup[r].worker => ~InHandler(p)

pipeline_vars ==
    <<profile, resp, pc, queries, tasks, results, all_resources, ranked_resources,
      filtered_resources, diversified_resources, learning_path, response,
      background_tasks, uniform_draws, min_rating_, max_per_source_>>

\* user_data = await _fetch_user_complete_data(...); "User data not found"
FetchUserData(r) ==
    /\ setup[r].pc = "start"
    /\ LoopFree(r)
    /\ \E found \in BOOLEAN :
          setup' = [setup EXCEPT ![r] =
                       IF found THEN [@ EXCEPT !.pc = "guard"]
                       ELSE Return(@, "failure", "User data not found or incomplete")]
    /\ UNCHANGED <<path_store, task_store>>
    /\ UNCHANGED pipeline_vars

\* the first get_user_paths of the idempotency guard: a path found ends the
\* call unless it is forced, none found sends it to asyncio.sleep(0.1), and an
\* exception is logged and taken as none found
FirstCheck(r) ==
    /\ setup[r].pc = "guard"
    /\ \E raises \in BOOLEAN :
          setup' = [setup EXCEPT ![r] =
                       IF raises
                       THEN [@ EXCEPT !.existing_ai_for_category = FALSE,
                                      !.pc = "generating"]
                       ELSE IF ~ExistingAiForCategory
                       THEN [@ EXCEPT !.existing_ai_for_category = FALSE,
                                      !.pc = "sleeping"]
                       ELSE IF ~@.force
                       THEN Return([@ EXCEPT !.existing_ai_for_category = TRUE],
                                   "success", "skipped regeneration")
                       ELSE [@ EXCEPT !.existing_ai_for_category = TRUE,
                                      !.pc = "generating"]]
    /\ UNCHANGED <<path_store, task_store>>
    /\ UNCHANGED pipeline_vars

\* the get_user_paths after the sleep, then the calls of the ML predictor,
\* the LLM and the scraper, in which the coroutine suspends
Recheck(r) ==
    /\ setup[r].pc = "sleeping"
    /\ LoopFree(r)
    /\ \E raises \in BOOLEAN :
          setup' = [setup EXCEPT ![r] =
                       IF raises \/ ~ExistingAiForCategory
                       THEN [@ EXCEPT !.existing_ai_for_category = FALSE,
                                      !.pc = "generating"]
                       ELSE IF ~@.force
                       THEN Return([@ EXCEPT !.existing_ai_for_category = TRUE],
                                   "success", "skipped regeneration")
                       ELSE [@ EXCEPT !.existing_ai_for_category = TRUE,
                                      !.pc = "generating"]]
    /\ UNCHANGED <<path_store, task_store>>
    /\ UNCHANGED pipeline_vars

\* The platform prediction, the query generation, the searches and the
\* synthesis come back: with an exception, with no resource, or with a
\* learning path whose steps hold n resources in all.
Generate(r) ==
    /\ setup[r].pc = "generating"
    /\ LoopFree(r)
    /\ \/ setup' = [setup EXCEPT ![r] =
                        Return(@, "failure", "Failed to complete ML setup")]
       \/ setup' = [setup EXCEPT ![r] = Return(@, "failure", "No resources found")]
       \/ \E n \in 0..MaxTasks :
             setup' = [setup EXCEPT ![r] =
                          [@ EXCEPT !.learning_path = [i \in 1..n |-> i],
                                    !.pc = "final_check"]]
    /\ UNCHANGED <<path_store, task_store>>
    /\ UNCHANGED pipeline_vars

\* the get_user_paths "right before saving": a path found ends the call
\* unless it is forced; an exception goes to the handler's outer except
FinalCheck(r) ==
    /\ setup[r].pc = "final_check"
    /\ \E raises \in BOOLEAN :
          setup' = [setup EXCEPT ![r] =
                       IF raises
                       THEN Return(@, "failure", "Failed to complete ML setup")
                       ELSE IF ExistingAiForCategory /\ ~@.force
                       THEN Return(@, "success", "used existing concurrent path generation")
                       ELSE [@ EXCEPT !.pc = "create_path"]]
    /\ UNCHANGED <<path_store, task_store>>
    /\ UNCHANGED pipeline_vars

\* saved_path = await path_repo.create_path(path_data): the insert adds the
\* row and returns it, or raises and adds nothing
CreatePath(r) ==
    /\ setup[r].pc = "create_path"
    /\ \/ /\ path_store' = Append(path_store, PathRow(Len(path_store) + 1, TRUE))
          /\ setup' = [setup EXCEPT ![r] =
                           IF @.learning_path = <<>>
                           THEN Return([@ EXCEPT !.saved_path = Len(path_store) + 1],
                                       "success", "learning path generated")
                           ELSE [@ EXCEPT !.saved_path = Len(path_store) + 1,
                                          !.pc = "create_task"]]
       \/ /\ setup' = [setup EXCEPT ![r] =
                           Return(@, "failure", "Failed to complete ML setup")]
          /\ UNCHANGED path_store
    /\ UNCHANGED task_store
    /\ UNCHANGED pipeline_vars

\* await task_repo.create_task(task_data) for the next resource of the path:
\* the insert adds the row, or raises; the exception is raised again and the
\* outer except answers success=False
CreateTask(r) ==
    /\ setup[r].pc = "create_task"
    /\ \/ /\ task_store' =
                Append(task_store,
                       TaskRow(setup[r].saved_path,
                               setup[r].learning_path[setup[r].saved_tasks + 1]))
          /\ setup' = [setup EXCEPT ![r] =
                           IF @.saved_tasks + 1 = Len(@.learning_path)
                           THEN Return([@ EXCEPT !.saved_tasks = @ + 1],
                                       "success", "learning path generated")
                           ELSE [@ EXCEPT !.saved_tasks = @ + 1]]
       \/ /\ setup' = [setup EXCEPT ![r] =
                           Return(@, "failure", "Failed to complete ML setup")]
          /\ UNCHANGED task_store
    /\ UNCHANGED path_store
    /\ UNCHANGED pipeline_vars

\* The table holds no path, a path the user made by hand, or an AI-generated
\* path of the category; two calls are received, each forced or not, each on
\* one of the workers.
InitSetup ==
    /\ path_store \in {<<>>, <<PathRow(1, FALSE)>>, <<PathRow(1, TRUE)>>}
    /\ task_store = <<>>
    /\ \E force \in [Runs -> BOOLEAN] :
          \E worker \in [Runs -> Workers] :
              setup = [r \in Runs |-> NewCall(force[r], worker[r])]
    /\ profile = NoProfile
    /\ resp = [r \in Runs |-> <<>>]
    /\ pc = [r \in Runs |-> "idle"]
    /\ queries = [r \in Runs |-> <<>>]
    /\ tasks = [r \in Runs |-> <<>>]
    /\ results = [r \in Runs |-> <<>>]
    /\ all_resources = [r \in Runs |-> <<>>]
    /\ ranked_resources = [r \in Runs |-> <<>>]
    /\ filtered_resources = [r \in Runs |-> <<>>]
    /\ diversified_resources = [r \in Runs |-> <<>>]
    /\ learning_path = [r \in Runs |-> <<>>]
    /\ response = [r \in Runs |-> 0]
    /\ background_tasks = [r \in Runs |-> <<>>]
    /\ uniform_draws = [r \in Runs |-> <<>>]
    /\ min_rating_ = 20
    /\ max_per_source_ = 5

NextSetup ==
    \/ \E r \in Runs : FetchUserData(r)
    \/ \E r \in Runs : FirstCheck(r)
    \/ \E r \in Runs : Recheck(r)
    \/ \E r \in Runs : Generate(r)
    \/ \E r \in Runs : FinalCheck(r)
    \/ \E r \in Runs : CreatePath(r)
    \/ \E r \in Runs : CreateTask(r)

SpecSetup == InitSetup /\ [][NextSetup]_vars

(***************************************************************************)
(* Properties of complete_setup (checked under SpecSetup)                  *)
(***************************************************************************)
AiPathsForCategory ==
    {i \in DOMAIN path_store :
        /\ path_store[i].user_id = TheUser
        /\ path_store[i].category_id = TheCategory
        /\ path_store[i].ai_generated}

\* C28 (as stated): when no call is forced, whatever the interleaving of the
\* calls of complete_setup for the user and the category, the paths table
\* holds at most one AI-generated path of that category.
C28_AtMostOneAiPath ==
    (\A r \in Runs : ~setup[r].force) => Cardinality(AiPathsForCategory) <= 1

\* The rows call r has written.
PathRowsOf(r) == {i \in DOMAIN path_store : path_store[i].path_id = setup[r].saved_path}

TaskRowsOf(r) == {i \in DOMAIN task_store : task_store[i].path_id = setup[r].saved_path}

\* C29 (as stated): when a call of complete_setup has answered
\* success=False, no path it created is left in the paths table and no task
\* it created in the tasks table.
C29_FailureLeavesNothing ==
    \A r \in Runs :
        (setup[r].pc = "returned" /\ setup[r].success = "failure") =>
            /\ PathRowsOf(r) = {}
            /\ TaskRowsOf(r) = {}

(***************************************************************************)
(* The resources of an answered request (checked under Spec)               *)
(***************************************************************************)
\* C30 (as stated): a request answered with success has a path that holds
\* at least one resource, and a request left with no usable resource, those
\* whose resources were all removed by the quality filter included, is
\* answered with the no-resources error (404).
C30_SuccessHoldsAResource ==
    \A r \in Runs :
        /\ pc[r] = "success" =>
              \E i \in DOMAIN learning_path[r][1].steps :
                  learning_path[r][1].steps[i].resources # <<>>
        /\ (Answered(r) /\ queries[r] # <<>> /\ diversified_resources[r] = <<>>) =>
              response[r] = 404

====
